---------------------------- MODULE Spec2Model ----------------------------
(***************************************************************************)
(* Model of the dataset normaliser read_data of src/gpt2_tuning.py.        *)
(*                                                                         *)
(* Strings are TLA+ strings; a character is a string of length 1.  The     *)
(* Python library functions read_data calls (str.split, str.strip,         *)
(* json.loads, json.dumps, str, dict.get, truthiness) are operators that   *)
(* compute what the library computes on the alphabet of the inputs drawn   *)
(* by Init: printable ASCII without the apostrophe, space, tab, newline;   *)
(* JSON numbers are integers and floats of a few decimal digits.           *)
(***************************************************************************)
EXTENDS Integers, Sequences, FiniteSets, TLC

\* ---------------------------------------------------------------- bounds
\* Largest number of lines of a line-structured input.
MaxLines == 2
\* Largest number of elements of a generated JSON array input.
MaxItems == 3

\* ------------------------------------------------------- string helpers
\* s[i-1:i] of Python: the character at position i (from 1), "" past the end.
CharAt(s, i) == IF 1 <= i /\ i <= Len(s) THEN SubSeq(s, i, i) ELSE ""

\* s[i-1:j] of Python: the characters at positions i..j that exist.
Slice(s, i, j) ==
    IF i > Len(s) \/ i > j THEN "" ELSE SubSeq(s, i, IF j > Len(s) THEN Len(s) ELSE j)

\* Characters str.strip() removes and json's WHITESPACE accepts.
IsSpace(c) == c \in {" ", "\t", "\n", "\r"}

RECURSIVE LStripFrom(_, _)
\* The first position >= i of s that holds no whitespace (Len(s)+1 if none).
LStripFrom(s, i) ==
    IF i <= Len(s) /\ IsSpace(CharAt(s, i)) THEN LStripFrom(s, i + 1) ELSE i

RECURSIVE RStripTo(_, _)
\* The last position <= j of s that holds no whitespace (0 if none).
RStripTo(s, j) ==
    IF j >= 1 /\ IsSpace(CharAt(s, j)) THEN RStripTo(s, j - 1) ELSE j

\* str.strip(): s without its leading and trailing whitespace.
strip(s) ==
    LET a == LStripFrom(s, 1)
        b == RStripTo(s, Len(s))
    IN  IF a > b THEN "" ELSE SubSeq(s, a, b)

\* The positions of s that hold a newline.
Newlines(s) == {i \in 1..Len(s) : CharAt(s, i) = "\n"}

\* The position of the k-th newline of s; 0 for k = 0 and Len(s) + 1 past
\* the last one.
NewlineAt(s, k) ==
    IF k = 0 THEN 0
    ELSE IF k > Cardinality(Newlines(s)) THEN Len(s) + 1
    ELSE CHOOSE i \in Newlines(s) : Cardinality({j \in Newlines(s) : j < i}) = k - 1

\* str.split('\n'): the parts of s between its newlines, always at least
\* one element.
split(s) ==
    [k \in 1..(Cardinality(Newlines(s)) + 1) |->
        Slice(s, NewlineAt(s, k - 1) + 1, NewlineAt(s, k) - 1)]

RECURSIVE Join(_, _)
\* sep.join(parts)
Join(parts, sep) ==
    IF parts = <<>> THEN ""
    ELSE IF Len(parts) = 1 THEN parts[1]
    ELSE parts[1] \o sep \o Join(Tail(parts), sep)

\* c in s, for a character c.
Contains(s, c) == \E i \in 1..Len(s) : CharAt(s, i) = c

Digits == "0123456789"

\* c is one of the ten digits.
IsDigit(c) == Contains(Digits, c)

\* int(c) of a digit c.
DigitVal(c) == (CHOOSE k \in 1..10 : CharAt(Digits, k) = c) - 1

RECURSIVE NatStr(_)
\* Decimal digits of a natural number.
NatStr(n) ==
    IF n < 10 THEN CharAt(Digits, n + 1)
    ELSE NatStr(n \div 10) \o CharAt(Digits, (n % 10) + 1)

\* str(n) / json.dumps(n) of an int.
IntStr(n) == IF n < 0 THEN "-" \o NatStr(-n) ELSE NatStr(n)

\* ----------------------------------------------------------- JSON values
\* A Python object that json.loads can return, as a record of one shape:
\* t is the type, b/n/s the value of a bool/int/str, kids the elements of a
\* list or the values of a dict, keys the keys of a dict (insertion order).
JNull == [t |-> "null", b |-> FALSE, n |-> 0, s |-> "", keys |-> <<>>, kids |-> <<>>]
JBool(b) == [JNull EXCEPT !.t = "bool", !.b = b]
JInt(n) == [JNull EXCEPT !.t = "int", !.n = n]
JStr(s) == [JNull EXCEPT !.t = "str", !.s = s]
JList(kids) == [JNull EXCEPT !.t = "list", !.kids = kids]
JDict(keys, kids) == [JNull EXCEPT !.t = "dict", !.keys = keys, !.kids = kids]

\* isinstance(v, dict), isinstance(v, list), isinstance(v, str)
IsDict(v) == v.t = "dict"
IsList(v) == v.t = "list"
IsStr(v) == v.t = "str"

RECURSIVE KeyIndex(_, _, _)
\* The position of key k in keys at or after position i, 0 if absent.
KeyIndex(keys, k, i) ==
    IF i > Len(keys) THEN 0
    ELSE IF keys[i] = k THEN i ELSE KeyIndex(keys, k, i + 1)

\* dict.get(k): the value stored for k, None when k is absent.
get(d, k) ==
    LET p == KeyIndex(d.keys, k, 1)
    IN  IF p = 0 THEN JNull ELSE d.kids[p]

\* d[k] = v on an insertion-ordered dict: an existing key keeps its place.
DictSet(d, k, v) ==
    LET p == KeyIndex(d.keys, k, 1)
    IN  IF p = 0 THEN JDict(Append(d.keys, k), Append(d.kids, v))
        ELSE JDict(d.keys, [d.kids EXCEPT ![p] = v])

\* bool(v): None, False, 0, "", [] and {} are false.
Truthy(v) ==
    CASE v.t = "null" -> FALSE
      [] v.t = "bool" -> v.b
      [] v.t = "int"  -> v.n # 0
      [] v.t = "float" -> v.s \notin {"0.0", "-0.0"}
      [] v.t = "str"  -> v.s # ""
      [] OTHER        -> v.kids # <<>>

\* a or b
Or(a, b) == IF Truthy(a) THEN a ELSE b

\* ------------------------------------------------------------ json.loads
\* The result of a parse step: ok, the value read, and the position after it.
Fail == [ok |-> FALSE, v |-> JNull, i |-> 0]
Got(v, i) == [ok |-> TRUE, v |-> v, i |-> i]

\* json's WHITESPACE.match(s, i).end()
SkipWs(s, i) == LStripFrom(s, i)

\* The character a backslash escape stands for ("" for one json rejects;
\* \b, \f and \uXXXX are outside the alphabet).
Unescape(e) ==
    CASE e = "\"" -> "\""
      [] e = "\\" -> "\\"
      [] e = "/"  -> "/"
      [] e = "n"  -> "\n"
      [] e = "t"  -> "\t"
      [] e = "r"  -> "\r"
      [] OTHER    -> ""

RECURSIVE ScanString(_, _, _)
\* json.decoder.scanstring (strict): i is inside a string literal, acc the
\* characters read since its opening quote.
ScanString(s, i, acc) ==
    IF i > Len(s) THEN Fail
    ELSE LET c == CharAt(s, i)
         IN  IF c = "\"" THEN Got(JStr(acc), i + 1)
             ELSE IF c = "\\"
                  THEN IF i + 1 > Len(s) \/ Unescape(CharAt(s, i + 1)) = ""
                       THEN Fail
                       ELSE ScanString(s, i + 2, acc \o Unescape(CharAt(s, i + 1)))
             ELSE IF c \in {"\n", "\t", "\r"} THEN Fail
             ELSE ScanString(s, i + 1, acc \o c)

RECURSIVE ScanDigits(_, _, _)
\* The digits from position i on, folded into acc.
ScanDigits(s, i, acc) ==
    IF i <= Len(s) /\ IsDigit(CharAt(s, i))
    THEN ScanDigits(s, i + 1, 10 * acc + DigitVal(CharAt(s, i)))
    ELSE [n |-> acc, i |-> i]

\* n zeros.
Zeros(n) == Slice("00000000000000000000", 1, n)

RECURSIVE TrimZeros(_, _)
\* The decimal m * 10**e with the trailing zeros of m moved into e.
TrimZeros(m, e) ==
    IF m # 0 /\ m % 10 = 0 THEN TrimZeros(m \div 10, e + 1) ELSE [m |-> m, e |-> e]

\* repr(x) / float.__repr__ of the float x = (-1)**neg * m * 10**e, m > 0
\* with no trailing zero: fixed notation while the decimal exponent x of
\* the first digit has -4 <= x < 16, scientific notation otherwise.
FloatRepr(neg, m, e) ==
    LET D == NatStr(m)
        x == Len(D) - 1 + e
        xs == IF x < 0 THEN -x ELSE x
        body ==
            IF m = 0 THEN "0.0"
            ELSE IF -4 <= x /\ x < 16
                 THEN IF e >= 0 THEN D \o Zeros(e) \o ".0"
                      ELSE IF x >= 0
                           THEN Slice(D, 1, x + 1) \o "." \o Slice(D, x + 2, Len(D))
                           ELSE "0." \o Zeros(-x - 1) \o D
                 ELSE Slice(D, 1, 1)
                      \o (IF Len(D) > 1 THEN "." \o Slice(D, 2, Len(D)) ELSE "")
                      \o "e" \o (IF x < 0 THEN "-" ELSE "+")
                      \o (IF xs < 10 THEN "0" ELSE "") \o NatStr(xs)
    IN  (IF neg THEN "-" ELSE "") \o body

\* A Python float, held as its repr (the shortest decimal that reads back
\* as the same float).
JFloat(r) == [JNull EXCEPT !.t = "float", !.s = r]

\* json.scanner NUMBER_RE after the integer part n that ends before
\* position i: (\.[0-9]+)?([eE][-+]?[0-9]+)? ; with neither part the
\* number is the int, with either it is float(integer + frac + exp).
ScanFloat(s, neg, n, i) ==
    LET hasFrac == CharAt(s, i) = "." /\ IsDigit(CharAt(s, i + 1))
        f == IF hasFrac THEN ScanDigits(s, i + 1, n) ELSE [n |-> n, i |-> i]
        fd == IF hasFrac THEN f.i - (i + 1) ELSE 0
        sg == IF CharAt(s, f.i + 1) \in {"-", "+"} THEN 1 ELSE 0
        hasExp == CharAt(s, f.i) \in {"e", "E"} /\ IsDigit(CharAt(s, f.i + 1 + sg))
        x == IF hasExp THEN ScanDigits(s, f.i + 1 + sg, 0) ELSE [n |-> 0, i |-> f.i]
        ex == IF CharAt(s, f.i + 1) = "-" THEN -x.n ELSE x.n
        d == TrimZeros(f.n, ex - fd)
    IN  IF ~hasFrac /\ ~hasExp THEN Got(JInt(IF neg THEN -n ELSE n), i)
        ELSE Got(JFloat(FloatRepr(neg, d.m, IF d.m = 0 THEN 0 ELSE d.e)), x.i)

\* json.scanner NUMBER_RE: -?(0|[1-9][0-9]*) and what follows it.
ScanNumber(s, i) ==
    LET neg == CharAt(s, i) = "-"
        j == IF neg THEN i + 1 ELSE i
    IN  IF j > Len(s) \/ ~IsDigit(CharAt(s, j)) THEN Fail
        ELSE IF CharAt(s, j) = "0" THEN ScanFloat(s, neg, 0, j + 1)
        ELSE LET d == ScanDigits(s, j, 0)
             IN  ScanFloat(s, neg, d.n, d.i)

RECURSIVE ParseValue(_, _)
RECURSIVE ArrayItems(_, _, _)
RECURSIVE ObjectPairs(_, _, _)

\* json.scanner._scan_once: the value that starts at position i.
ParseValue(s, i) ==
    IF i > Len(s) THEN Fail
    ELSE LET c == CharAt(s, i)
         IN  CASE c = "\"" -> ScanString(s, i + 1, "")
               [] c = "{" ->
                    LET j == SkipWs(s, i + 1)
                    IN  IF CharAt(s, j) = "}" THEN Got(JDict(<<>>, <<>>), j + 1)
                        ELSE ObjectPairs(s, j, JDict(<<>>, <<>>))
               [] c = "[" ->
                    LET j == SkipWs(s, i + 1)
                    IN  IF CharAt(s, j) = "]" THEN Got(JList(<<>>), j + 1)
                        ELSE ArrayItems(s, j, <<>>)
               [] c = "n" /\ Slice(s, i, i + 3) = "null" -> Got(JNull, i + 4)
               [] c = "t" /\ Slice(s, i, i + 3) = "true" -> Got(JBool(TRUE), i + 4)
               [] c = "f" /\ Slice(s, i, i + 4) = "false" -> Got(JBool(FALSE), i + 5)
               [] OTHER -> ScanNumber(s, i)

\* json.decoder.JSONArray: the elements from position i on, acc being
\* those already read.
ArrayItems(s, i, acc) ==
    LET r == ParseValue(s, i)
        j == SkipWs(s, r.i)
    IN  IF ~r.ok THEN Fail
        ELSE IF CharAt(s, j) = "]" THEN Got(JList(Append(acc, r.v)), j + 1)
        ELSE IF CharAt(s, j) = "," THEN ArrayItems(s, SkipWs(s, j + 1), Append(acc, r.v))
        ELSE Fail

\* json.decoder.JSONObject: the "key": value pairs from position i on,
\* d being the dict of those already read.
ObjectPairs(s, i, d) ==
    IF CharAt(s, i) # "\"" THEN Fail
    ELSE LET k == ScanString(s, i + 1, "")
             c == SkipWs(s, k.i)
             r == ParseValue(s, SkipWs(s, c + 1))
             j == SkipWs(s, r.i)
         IN  IF ~k.ok \/ CharAt(s, c) # ":" \/ ~r.ok THEN Fail
             ELSE IF CharAt(s, j) = "}" THEN Got(DictSet(d, k.v.s, r.v), j + 1)
             ELSE IF CharAt(s, j) = ","
                  THEN ObjectPairs(s, SkipWs(s, j + 1), DictSet(d, k.v.s, r.v))
             ELSE Fail

\* json.loads(s): ok is FALSE where json.loads raises JSONDecodeError.
loads(s) ==
    LET r == ParseValue(s, SkipWs(s, 1))
    IN  IF r.ok /\ SkipWs(s, r.i) = Len(s) + 1 THEN r ELSE Fail

\* ------------------------------------------------- json.dumps, str, repr
\* A faulty escaping that leaves every character as it is.
EscapeJson_Raw(s) == s

RECURSIVE EscapeJson(_)
\* json.encoder's escaping of the characters of a string (ensure_ascii).
EscapeJson(s) ==
    IF s = "" THEN ""
    ELSE LET c == Head(s)
             e == CASE c = "\"" -> "\\\""
                    [] c = "\\" -> "\\\\"
                    [] c = "\n" -> "\\n"
                    [] c = "\t" -> "\\t"
                    [] c = "\r" -> "\\r"
                    [] OTHER    -> c
         IN  e \o EscapeJson(Tail(s))

RECURSIVE dumps(_)
\* json.dumps(v) with the default separators ", " and ": ".
dumps(v) ==
    CASE v.t = "null" -> "null"
      [] v.t = "bool" -> IF v.b THEN "true" ELSE "false"
      [] v.t = "int"  -> IntStr(v.n)
      [] v.t = "float" -> v.s
      [] v.t = "str"  -> "\"" \o EscapeJson(v.s) \o "\""
      [] v.t = "list" ->
           "[" \o Join([i \in 1..Len(v.kids) |-> dumps(v.kids[i])], ", ") \o "]"
      [] OTHER ->
           "{" \o Join([i \in 1..Len(v.keys) |->
                          "\"" \o EscapeJson(v.keys[i]) \o "\": " \o dumps(v.kids[i])],
                       ", ") \o "}"

RECURSIVE EscapeRepr(_, _)
\* The body of repr(s) for the quote character q.
EscapeRepr(s, q) ==
    IF s = "" THEN ""
    ELSE LET c == Head(s)
             e == CASE c = q    -> "\\" \o q
                    [] c = "\\" -> "\\\\"
                    [] c = "\n" -> "\\n"
                    [] c = "\t" -> "\\t"
                    [] c = "\r" -> "\\r"
                    [] OTHER    -> c
         IN  e \o EscapeRepr(Tail(s), q)

\* repr(s) of a str: single quotes, unless s holds ' and no ".
ReprStr(s) ==
    LET q == IF Contains(s, "'") /\ ~Contains(s, "\"") THEN "\"" ELSE "'"
    IN  q \o EscapeRepr(s, q) \o q

RECURSIVE repr(_)
\* repr(v) of a Python object.
repr(v) ==
    CASE v.t = "null" -> "None"
      [] v.t = "bool" -> IF v.b THEN "True" ELSE "False"
      [] v.t = "int"  -> IntStr(v.n)
      [] v.t = "float" -> v.s
      [] v.t = "str"  -> ReprStr(v.s)
      [] v.t = "list" ->
           "[" \o Join([i \in 1..Len(v.kids) |-> repr(v.kids[i])], ", ") \o "]"
      [] OTHER ->
           "{" \o Join([i \in 1..Len(v.keys) |->
                          ReprStr(v.keys[i]) \o ": " \o repr(v.kids[i])],
                       ", ") \o "}"

\* str(v): a str is itself, any other object its repr.
str(v) == IF v.t = "str" THEN v.s ELSE repr(v)

\* ------------------------------------------------------------- the inputs
\* The type tags: the three the code names, .txt, and an unknown one.
FileTypes == {".json", ".csv", ".jsonl", ".txt", ".md"}

\* The lines a line-structured input is made of.
LineSet ==
    { "", " \t", "a: b", "c: d", " 0123456789 ", " 0123456789a\t",
      "{\"text\":\"hello\"}",
      "{\"content\": \"world\", \"text\": \"hello\"}",
      "{\"text\":\"\",\"content\":\"world\"}",
      "{\"description\":\"desc\",\"id\":7}",
      "{\"text\":\"  \"}",
      "{\"text\": 5}",
      "\"\"",
      "{bad json",
      "{\"text\":\"{\\\"text\\\":\\\"x\\\"}\"}",
      " {\"id\": \"a\\nb\"} " }

\* The elements a JSON array input is made of.
ElemSet ==
    { "{\"text\":\"hello\"}", "{\"content\":\"world\"}", "\"plain\"",
      "{\"content\":\"world\",\"text\":\"hello\"}",
      "{\"text\":\"\",\"content\":\"world\"}",
      "{\"text\":null,\"description\":\" desc \"}",
      "{\"id\":7}", "{\"text\":5}", "{\"text\":\"  \"}",
      "\"\"" }

\* The sequences over S of length lo..hi.
SeqsOf(S, lo, hi) == UNION { [1..n -> S] : n \in lo..hi }

\* What may follow the last line: nothing, a newline, a newline and a
\* blank line.
Trailers == { "", "\n", "\n\n" }

\* The contents Init draws: up to MaxLines lines joined by newlines and
\* followed by a trailer, and JSON arrays of up to MaxItems elements.
Contents ==
    { Join(ls, "\n") \o tr : ls \in SeqsOf(LineSet, 1, MaxLines), tr \in Trailers }
    \cup { "[" \o Join(es, ",") \o "]" : es \in SeqsOf(ElemSet, 0, MaxItems) }

\* ---------------------------------------------------------------- state
VARIABLES
    file_content,   \* read_data's first argument
    file_type,      \* read_data's second argument
    pc,             \* where the call is: start, a loop, return, done, raised
    data,           \* the parsed content (.json)
    lines,          \* file_content.split('\n') (the line-structured branches)
    idx,            \* how many lines or elements the loop has consumed
    texts,          \* the sample list being built
    src,            \* history: src[k] is the line or element texts[k] came from
    fed             \* history: the sample a second call was given, if any

vars == <<file_content, file_type, pc, data, lines, idx, texts, src, fed>>

\* The training-job managers of src/server and what the service they call
\* holds.
VARIABLES
    aws_configured, \* SageMakerTrainingManager.aws_configured
    demo_jobs,      \* SageMakerTrainingManager.demo_jobs, in insertion order
    sm_jobs,        \* the training jobs the external service holds
    now,            \* the clock, in seconds
    created,        \* history: the create calls that returned a job
    last            \* history: the last call, its arguments and its answer

jobVars == <<aws_configured, demo_jobs, sm_jobs, now, created, last>>

\* No call has been made.
NoCall == [op |-> "none"]

\* The managers before any call, the state the other specifications keep.
JobsIdle ==
    /\ aws_configured = FALSE
    /\ demo_jobs = <<>>
    /\ sm_jobs = <<>>
    /\ now = 0
    /\ created = {}
    /\ last = NoCall

NoFeed == [on |-> FALSE, sample |-> "", line |-> ""]

\* What the endpoints of src/server/main.py keep outside the process.
VARIABLES
    bucket,         \* the keys of the objects of the S3 bucket
    table,          \* the user items of the DynamoDB table
    issued          \* history: the bearer tokens issued and when

apiVars == <<bucket, table, issued>>

\* The bucket and the table before any request.
ApiIdle == bucket = {} /\ table = {} /\ issued = {}

\* The scripts that print sample previews.
VARIABLES
    script,         \* the script that runs
    out             \* what it has printed, line by line

mainVars == <<script, out>>

\* No script runs.
MainIdle == script = "none" /\ out = <<>>

\* The variables read_data does not touch.
others == <<jobVars, apiVars, mainVars>>

\* read_data before any call, the state the other specifications keep.
ReadDataIdle ==
    /\ file_content = "" /\ file_type = "" /\ pc = "idle"
    /\ data = JNull /\ lines = <<>> /\ idx = 0
    /\ texts = <<>> /\ src = <<>> /\ fed = NoFeed

Init ==
    /\ file_content \in Contents
    /\ file_type \in FileTypes
    /\ pc = "start"
    /\ data = JNull
    /\ lines = <<>>
    /\ idx = 0
    /\ texts = <<>>
    /\ src = <<>>
    /\ fed = NoFeed
    /\ JobsIdle
    /\ ApiIdle
    /\ MainIdle

\* ------------------------------------------------------------- read_data
\* A faulty append that puts the new sample first: texts.insert(0, t).
Emit_Prepend(t, k) ==
    /\ texts' = <<t>> \o texts
    /\ src' = <<k>> \o src

\* texts.append(t), recording that t came from line or element k.
Emit(t, k) ==
    /\ texts' = Append(texts, t)
    /\ src' = Append(src, k)

\* A faulty field choice that consults content before text.
ItemText_ContentFirst(item) ==
    Or(Or(Or(get(item, "content"), get(item, "text")), get(item, "description")),
       JStr(dumps(item)))

\* item.get('text') or item.get('content') or item.get('description')
\*     or json.dumps(item)
ItemText(item) ==
    Or(Or(Or(get(item, "text"), get(item, "content")), get(item, "description")),
       JStr(dumps(item)))

\* A faulty .jsonl field choice that consults description as .json does.
LineText_WithDescription(d) ==
    Or(Or(Or(get(d, "text"), get(d, "content")), get(d, "description")),
       JStr(dumps(d)))

\* data.get('text') or data.get('content') or json.dumps(data)
LineText(d) ==
    Or(Or(get(d, "text"), get(d, "content")), JStr(dumps(d)))

\* A faulty handler condition that applies the .txt length filter.
FallbackKeep_Long(line) == strip(line) # "" /\ Len(strip(line)) > 10

\* The condition of the comprehension of the JSONDecodeError handler.
FallbackKeep(line) == strip(line) # ""

\* The length a line of the .txt / unknown-type branch must exceed.
MinLineLen == 10

\* A faulty condition that keeps a line of exactly MinLineLen characters.
TxtKeep_AtLeast(line) == strip(line) # "" /\ Len(strip(line)) >= MinLineLen

\* The condition of the comprehension of the .txt / unknown-type branch.
TxtKeep(line) == strip(line) # "" /\ Len(strip(line)) > MinLineLen

\* The line or element the running loop is at.
Cur == idx + 1

\* if file_type == '.json': data = json.loads(file_content) is a list.
JsonLoadList ==
    /\ pc = "start" /\ file_type = ".json"
    /\ loads(file_content).ok /\ IsList(loads(file_content).v)
    /\ data' = loads(file_content).v
    /\ idx' = 0
    /\ pc' = "json_items"
    /\ UNCHANGED <<file_content, file_type, lines, texts, src, fed>>
    /\ UNCHANGED others

\* data is not a list: texts.append(str(data)).
JsonLoadOther ==
    /\ pc = "start" /\ file_type = ".json"
    /\ loads(file_content).ok /\ ~IsList(loads(file_content).v)
    /\ data' = loads(file_content).v
    /\ Emit(str(loads(file_content).v), 1)
    /\ pc' = "return"
    /\ UNCHANGED <<file_content, file_type, lines, idx, fed>>
    /\ UNCHANGED others

\* except json.JSONDecodeError: the comprehension over the lines starts.
JsonDecodeError ==
    /\ pc = "start" /\ file_type = ".json"
    /\ ~loads(file_content).ok
    /\ lines' = split(file_content)
    /\ idx' = 0
    /\ pc' = "fallback_lines"
    /\ UNCHANGED <<file_content, file_type, data, texts, src, fed>>
    /\ UNCHANGED others

\* for item in data, a dict whose chosen text is a str: it is appended,
\* stripped, when the stripped text is not empty.
JsonItemDict ==
    /\ pc = "json_items" /\ idx < Len(data.kids)
    /\ IsDict(data.kids[Cur]) /\ IsStr(ItemText(data.kids[Cur]))
    /\ IF strip(ItemText(data.kids[Cur]).s) # ""
       THEN Emit(strip(ItemText(data.kids[Cur]).s), Cur)
       ELSE UNCHANGED <<texts, src>>
    /\ idx' = Cur
    /\ UNCHANGED <<file_content, file_type, pc, data, lines, fed>>
    /\ UNCHANGED others

\* for item in data, a dict whose chosen text is no str: text.strip()
\* raises AttributeError, which nothing catches.
JsonItemRaise ==
    /\ pc = "json_items" /\ idx < Len(data.kids)
    /\ IsDict(data.kids[Cur]) /\ ~IsStr(ItemText(data.kids[Cur]))
    /\ pc' = "raised"
    /\ UNCHANGED <<file_content, file_type, data, lines, idx, texts, src, fed>>
    /\ UNCHANGED others

\* for item in data, not a dict: texts.append(str(item)).
JsonItemOther ==
    /\ pc = "json_items" /\ idx < Len(data.kids)
    /\ ~IsDict(data.kids[Cur])
    /\ Emit(str(data.kids[Cur]), Cur)
    /\ idx' = Cur
    /\ UNCHANGED <<file_content, file_type, pc, data, lines, fed>>
    /\ UNCHANGED others

\* One line of [line.strip() for line in ... if line.strip()].
FallbackLine ==
    /\ pc = "fallback_lines" /\ idx < Len(lines)
    /\ IF FallbackKeep(lines[Cur])
       THEN Emit(strip(lines[Cur]), Cur)
       ELSE UNCHANGED <<texts, src>>
    /\ idx' = Cur
    /\ UNCHANGED <<file_content, file_type, pc, data, lines, fed>>
    /\ UNCHANGED others

\* A faulty .csv branch whose loop takes the header too: lines[0:].
CsvSplit_KeepHeader ==
    /\ pc = "start" /\ file_type = ".csv"
    /\ lines' = split(file_content)
    /\ idx' = 0
    /\ pc' = IF Len(split(file_content)) > 1 THEN "csv_lines" ELSE "return"
    /\ UNCHANGED <<file_content, file_type, data, texts, src, fed>>
    /\ UNCHANGED others

\* elif file_type == '.csv': lines = file_content.split('\n'); the loop
\* over lines[1:] starts when there is more than one line.
CsvSplit ==
    /\ pc = "start" /\ file_type = ".csv"
    /\ lines' = split(file_content)
    /\ IF Len(split(file_content)) > 1
       THEN idx' = 1 /\ pc' = "csv_lines"
       ELSE idx' = 0 /\ pc' = "return"
    /\ UNCHANGED <<file_content, file_type, data, texts, src, fed>>
    /\ UNCHANGED others

\* for line in lines[1:]: line = line.strip(); if line: texts.append(line)
CsvLine ==
    /\ pc = "csv_lines" /\ idx < Len(lines)
    /\ IF strip(lines[Cur]) # ""
       THEN Emit(strip(lines[Cur]), Cur)
       ELSE UNCHANGED <<texts, src>>
    /\ idx' = Cur
    /\ UNCHANGED <<file_content, file_type, pc, data, lines, fed>>
    /\ UNCHANGED others

\* elif file_type == '.jsonl': the loop over the lines starts.
JsonlSplit ==
    /\ pc = "start" /\ file_type = ".jsonl"
    /\ lines' = split(file_content)
    /\ idx' = 0
    /\ pc' = "jsonl_lines"
    /\ UNCHANGED <<file_content, file_type, data, texts, src, fed>>
    /\ UNCHANGED others

\* A line that is empty once stripped is passed over.
JsonlBlank ==
    /\ pc = "jsonl_lines" /\ idx < Len(lines)
    /\ strip(lines[Cur]) = ""
    /\ idx' = Cur
    /\ UNCHANGED <<file_content, file_type, pc, data, lines, texts, src, fed>>
    /\ UNCHANGED others

\* A line that parses to a dict whose chosen text is a str.
JsonlObject ==
    /\ pc = "jsonl_lines" /\ idx < Len(lines)
    /\ strip(lines[Cur]) # ""
    /\ loads(strip(lines[Cur])).ok
    /\ IsDict(loads(strip(lines[Cur])).v)
    /\ IsStr(LineText(loads(strip(lines[Cur])).v))
    /\ IF strip(LineText(loads(strip(lines[Cur])).v).s) # ""
       THEN Emit(strip(LineText(loads(strip(lines[Cur])).v).s), Cur)
       ELSE UNCHANGED <<texts, src>>
    /\ idx' = Cur
    /\ UNCHANGED <<file_content, file_type, pc, data, lines, fed>>
    /\ UNCHANGED others

\* A line that parses to something without .get (not a dict), or to a dict
\* whose chosen text has no .strip (not a str): AttributeError, uncaught.
JsonlRaise ==
    /\ pc = "jsonl_lines" /\ idx < Len(lines)
    /\ strip(lines[Cur]) # ""
    /\ loads(strip(lines[Cur])).ok
    /\ \/ ~IsDict(loads(strip(lines[Cur])).v)
       \/ ~IsStr(LineText(loads(strip(lines[Cur])).v))
    /\ pc' = "raised"
    /\ UNCHANGED <<file_content, file_type, data, lines, idx, texts, src, fed>>
    /\ UNCHANGED others

\* A faulty handler that drops the line that does not parse.
JsonlDecodeError_Drop ==
    /\ pc = "jsonl_lines" /\ idx < Len(lines)
    /\ strip(lines[Cur]) # ""
    /\ ~loads(strip(lines[Cur])).ok
    /\ idx' = Cur
    /\ UNCHANGED <<file_content, file_type, pc, data, lines, texts, src, fed>>
    /\ UNCHANGED others

\* except json.JSONDecodeError: texts.append(line)
JsonlDecodeError ==
    /\ pc = "jsonl_lines" /\ idx < Len(lines)
    /\ strip(lines[Cur]) # ""
    /\ ~loads(strip(lines[Cur])).ok
    /\ Emit(strip(lines[Cur]), Cur)
    /\ idx' = Cur
    /\ UNCHANGED <<file_content, file_type, pc, data, lines, fed>>
    /\ UNCHANGED others

\* else: the comprehension over the lines starts.
TxtSplit ==
    /\ pc = "start" /\ file_type \notin {".json", ".csv", ".jsonl"}
    /\ lines' = split(file_content)
    /\ idx' = 0
    /\ pc' = "txt_lines"
    /\ UNCHANGED <<file_content, file_type, data, texts, src, fed>>
    /\ UNCHANGED others

\* One line of [line.strip() for line in ... if line.strip() and
\* len(line.strip()) > 10].
TxtLine ==
    /\ pc = "txt_lines" /\ idx < Len(lines)
    /\ IF TxtKeep(lines[Cur])
       THEN Emit(strip(lines[Cur]), Cur)
       ELSE UNCHANGED <<texts, src>>
    /\ idx' = Cur
    /\ UNCHANGED <<file_content, file_type, pc, data, lines, fed>>
    /\ UNCHANGED others

\* The loop has run out (or there was none): return {"text": texts}.
Return ==
    /\ \/ pc = "return"
       \/ pc = "json_items" /\ idx = Len(data.kids)
       \/ pc \in {"fallback_lines", "csv_lines", "jsonl_lines", "txt_lines"}
          /\ idx = Len(lines)
    /\ pc' = "done"
    /\ UNCHANGED <<file_content, file_type, data, lines, idx, texts, src, fed>>
    /\ UNCHANGED others

\* A second call read_data(sample, '.jsonl') on a sample the first call
\* returned; fed remembers the sample and the line it came from.
Refeed ==
    /\ pc = "done" /\ file_type = ".jsonl" /\ ~fed.on
    /\ \E k \in 1..Len(texts) :
         /\ file_content' = texts[k]
         /\ fed' = [on |-> TRUE, sample |-> texts[k], line |-> strip(lines[src[k]])]
    /\ pc' = "start"
    /\ data' = JNull
    /\ lines' = <<>>
    /\ idx' = 0
    /\ texts' = <<>>
    /\ src' = <<>>
    /\ UNCHANGED file_type
    /\ UNCHANGED others

Next ==
    \/ JsonLoadList \/ JsonLoadOther \/ JsonDecodeError
    \/ JsonItemDict \/ JsonItemRaise \/ JsonItemOther \/ FallbackLine
    \/ CsvSplit \/ CsvLine
    \/ JsonlSplit \/ JsonlBlank \/ JsonlObject \/ JsonlRaise \/ JsonlDecodeError
    \/ TxtSplit \/ TxtLine
    \/ Return \/ Refeed

Spec == Init /\ [][Next]_vars

\* ------------------------------------------------ the verification scripts
\* [l.strip() for l in ls]: every line of ls, stripped.
StripAll(ls) == [m \in 1..Len(ls) |-> strip(ls[m])]

\* test_latest_upload.py: texts = [line.strip() for line in
\* file_content.split('\n') if line.strip() and len(line.strip()) > 10]
test_latest_upload_texts(content) ==
    StripAll(SelectSeq(split(content), LAMBDA l : strip(l) # "" /\ Len(strip(l)) > 10))

\* verify_logs.py: the same comprehension, written again.
verify_logs_texts(content) ==
    StripAll(SelectSeq(split(content), LAMBDA l : strip(l) # "" /\ Len(strip(l)) > 10))

\* ------------------------------------------------------------ the claims
\* The samples that came from line or element k, in output order.
Picks(k) ==
    LET at == SelectSeq([j \in 1..Len(texts) |-> j], LAMBDA j : src[j] = k)
    IN  [m \in 1..Len(at) |-> texts[at[m]]]

\* k in d: d holds the key k, whatever its value.
HasKey(d, k) == \E p \in 1..Len(d.keys) : d.keys[p] = k

\* The fields the .json branch looks at, in priority order.
JsonFields == <<"text", "content", "description">>

\* The value of the first field of fs that d holds (present, whatever its
\* value), as the sample it would give; the serialization if d holds none.
FirstPresent(d, fs) ==
    LET have == SelectSeq(fs, LAMBDA f : HasKey(d, f))
    IN  IF have = <<>> THEN dumps(d) ELSE str(get(d, have[1]))

\* The value of the first field of fs whose value in d is true for Python
\* (not None, "", 0, False, [] or {}); the serialization if there is none.
FirstTruthy(d, fs) ==
    LET have == SelectSeq(fs, LAMBDA f : Truthy(get(d, f)))
    IN  IF have = <<>> THEN JStr(dumps(d)) ELSE get(d, have[1])

\* What a dict gives under the amended claims: the stripped chosen value,
\* nothing when that is empty.
StrippedSample(v) == IF strip(v.s) # "" THEN <<strip(v.s)>> ELSE <<>>

\* The .json list branch has ended: the call has returned or raised.
InJsonList == pc \in {"done", "raised"} /\ file_type = ".json" /\ IsList(data)

\* C1 as stated: for a .json list, every mapping element yields the value
\* of the first PRESENT field among text, content, description, or its
\* serialization when none is present; any other element its string form.
C1_FirstPresentField ==
    (InJsonList /\ pc = "done") =>
        \A k \in 1..Len(data.kids) :
            Picks(k) = <<IF IsDict(data.kids[k])
                         THEN FirstPresent(data.kids[k], JsonFields)
                         ELSE str(data.kids[k])>>

\* C1 amended: for a .json list, every element consumed yields, whatever the
\* other elements are: for a mapping, the stripped value of the first field
\* among text, content, description whose value is truthy, or the
\* serialization of the element when none is, and no sample when the
\* stripped value is empty; for any other element, its string form.  The
\* call raises exactly at a mapping whose chosen value is not a string.
C1_FirstTruthyField ==
    InJsonList =>
        /\ \A k \in 1..idx :
              IF IsDict(data.kids[k])
              THEN /\ IsStr(FirstTruthy(data.kids[k], JsonFields))
                   /\ Picks(k) = StrippedSample(FirstTruthy(data.kids[k], JsonFields))
              ELSE Picks(k) = <<str(data.kids[k])>>
        /\ pc = "raised" =>
              /\ IsDict(data.kids[Cur])
              /\ ~IsStr(FirstTruthy(data.kids[Cur], JsonFields))
        /\ pc = "done" => idx = Len(data.kids)

\* C1's example: the three-element list gives hello, world, plain.
C1_Witness ==
    /\ pc = "done" /\ file_type = ".json"
    /\ file_content = "[{\"text\":\"hello\"},{\"content\":\"world\"},\"plain\"]"
    /\ texts = <<"hello", "world", "plain">>

\* The .txt / unknown-type branch has ended.
InTxt == pc = "done" /\ file_type \notin {".json", ".csv", ".jsonl"}

\* C2: for a type tag other than .json, .csv and .jsonl, a line gives a
\* sample if and only if its stripped length is greater than 10, the sample
\* being the stripped line; and the filters of the two verification scripts
\* give the list read_data returns.
C2_TxtLongerThanTen ==
    InTxt =>
        /\ lines = split(file_content)
        /\ \A k \in 1..Len(lines) :
              Picks(k) = IF Len(strip(lines[k])) > 10 THEN <<strip(lines[k])>> ELSE <<>>
        /\ texts = test_latest_upload_texts(file_content)
        /\ texts = verify_logs_texts(file_content)

\* A line of stripped length 10 is dropped and one of length 11 kept.
C2_Witness ==
    /\ pc = "done" /\ file_type = ".md"
    /\ file_content = " 0123456789 \n 0123456789a\t"
    /\ texts = <<"0123456789a">>

\* C3: for .csv the first line is never a sample, and the output is exactly
\* the non-empty stripped lines among lines 2..N, so of their number.
C3_CsvHeaderDropped ==
    (file_type = ".csv" /\ pc = "done") =>
        /\ lines = split(file_content)
        /\ \A j \in 1..Len(src) : src[j] >= 2
        /\ texts = StripAll(SelectSeq(Tail(lines), LAMBDA l : strip(l) # ""))
        /\ Len(texts) = Cardinality({k \in 2..Len(lines) : strip(lines[k]) # ""})

\* C3's example: "a: b\nc: d\n\n" gives ["c: d"].
C3_Witness ==
    /\ pc = "done" /\ file_type = ".csv"
    /\ file_content = "a: b\nc: d\n\n"
    /\ texts = <<"c: d">>

\* A single line, whatever it holds, gives the empty output.
C3_WitnessOneLine ==
    /\ pc = "done" /\ file_type = ".csv"
    /\ file_content = " 0123456789a\t"
    /\ texts = <<>>

\* The fields the .jsonl branch looks at, in priority order.
JsonlFields == <<"text", "content">>

\* The .jsonl branch has ended: the call has returned or raised.
InJsonl == pc \in {"done", "raised"} /\ file_type = ".jsonl"

\* Line k is not blank and json.loads accepts it.
ValidLine(k) == strip(lines[k]) # "" /\ loads(strip(lines[k])).ok

\* Line k is not blank and json.loads rejects it.
InvalidLine(k) == strip(lines[k]) # "" /\ ~loads(strip(lines[k])).ok

\* What one .jsonl line gives, as a function of that line alone.
JsonlLineSamples(line) ==
    LET l == strip(line)
        r == loads(l)
    IN  IF l = "" THEN <<>>
        ELSE IF ~r.ok THEN <<l>>
        ELSE StrippedSample(FirstTruthy(r.v, JsonlFields))

\* C4: for .jsonl, a non-empty line that does not parse is kept as the
\* stripped raw line, never dropped, and never ends the call: the call
\* raises only at a line that parses, it returns only after the last line,
\* and what each line gives depends on that line alone (so the lines after
\* an invalid one give what they give without it).
C4_InvalidLineKept ==
    InJsonl =>
        /\ lines = split(file_content)
        /\ \A k \in 1..idx : InvalidLine(k) => Picks(k) = <<strip(lines[k])>>
        /\ \A k \in 1..idx : Picks(k) = JsonlLineSamples(lines[k])
        /\ pc = "raised" => ValidLine(Cur)
        /\ pc = "done" => idx = Len(lines)

\* An invalid line is kept and the valid line after it still gives its text.
C4_Witness ==
    /\ pc = "done" /\ file_type = ".jsonl" /\ ~fed.on
    /\ file_content = "{bad json\n{\"text\":\"hello\"}"
    /\ texts = <<"{bad json", "hello">>

\* C5 as stated: for .jsonl, every non-empty line that parses yields the
\* value of its text field when PRESENT, otherwise of its content field when
\* present, otherwise the serialization of the parsed object.
C5_JsonlFirstPresent ==
    (InJsonl /\ pc = "done") =>
        \A k \in 1..Len(lines) :
            ValidLine(k) =>
                Picks(k) = <<FirstPresent(loads(strip(lines[k])).v, JsonlFields)>>

\* C5 amended: for .jsonl, every non-empty line consumed that parses is a
\* mapping and yields the stripped value of its text field when that is
\* truthy, otherwise of its content field when that is truthy, otherwise the
\* serialization of the parsed object (description is not consulted), and
\* no sample when the stripped value is empty.  The call raises exactly at
\* a line that parses to something that is not a mapping or whose chosen
\* value is not a string.
C5_JsonlFirstTruthy ==
    InJsonl =>
        /\ \A k \in 1..idx :
              ValidLine(k) =>
                  LET v == loads(strip(lines[k])).v
                  IN  /\ IsDict(v) /\ IsStr(FirstTruthy(v, JsonlFields))
                      /\ Picks(k) = StrippedSample(FirstTruthy(v, JsonlFields))
        /\ pc = "raised" =>
              LET v == loads(strip(lines[Cur])).v
              IN  /\ ValidLine(Cur)
                  /\ ~IsDict(v) \/ ~IsStr(FirstTruthy(v, JsonlFields))

\* text wins over content, and description is not consulted.
C5_Witness ==
    /\ pc = "done" /\ file_type = ".jsonl" /\ ~fed.on
    /\ file_content = "{\"content\": \"world\", \"text\": \"hello\"}\n{\"description\":\"desc\",\"id\":7}"
    /\ texts = <<"hello", "{\"description\": \"desc\", \"id\": 7}">>

\* C6: read_data returns a sample list without raising for every content
\* under .json and .jsonl.
C6_NeverRaises ==
    file_type \in {".json", ".jsonl"} => pc # "raised"

\* C7: every sample of the output, for every content and type tag, is a
\* string that is neither empty nor whitespace only.
C7_SamplesNotBlank ==
    pc = "done" => \A j \in 1..Len(texts) : strip(texts[j]) # ""

\* A second call has ended, and the line its content came from was valid
\* JSON.
RefedValid == fed.on /\ pc \in {"done", "raised"} /\ loads(fed.line).ok

\* C8 as stated: for every line that was valid JSON, the sample read_data
\* gave for it, fed back as .jsonl content, comes back as the one sample of
\* the output (checked where the second call returns).
C8_RoundTripEveryValidLine ==
    (RefedValid /\ pc = "done") => texts = <<fed.sample>>

\* The line the fed sample came from has no truthy text or content, so the
\* sample is the re-serialization of the parsed line.
RefedSerialized ==
    /\ RefedValid
    /\ IsDict(loads(fed.line).v)
    /\ ~Truthy(get(loads(fed.line).v, "text"))
    /\ ~Truthy(get(loads(fed.line).v, "content"))

\* C8 amended: for every line that was valid JSON and whose sample is the
\* re-serialization of the parsed object (the object has no truthy text or
\* content field), the sample fed back as .jsonl content makes read_data
\* return exactly that one sample.
C8_RoundTripSerialized ==
    RefedSerialized =>
        /\ fed.sample = dumps(loads(fed.line).v)
        /\ pc = "done"
        /\ texts = <<fed.sample>>

\* A re-serialized object with an escaped newline came back unchanged.
C8_Witness ==
    /\ RefedSerialized /\ pc = "done"
    /\ fed.line = "{\"id\": \"a\\nb\"}"
    /\ texts = <<"{\"id\": \"a\\nb\"}">>

\* C9: for every type tag the samples are in the order of their source
\* lines or elements: a sample from an earlier line or element stands
\* before one from a later line or element; the output may be empty.
C9_SourceOrder ==
    /\ Len(src) = Len(texts)
    /\ \A i, j \in 1..Len(texts) : src[i] < src[j] => i < j

\* Two samples from two lines, in the order of the lines.
C9_Witness ==
    /\ pc = "done" /\ file_type = ".jsonl" /\ ~fed.on
    /\ file_content = "{\"text\":\"hello\"}\n{bad json\n\n"
    /\ texts = <<"hello", "{bad json">>
    /\ src = <<1, 2>>

\* The output may be empty.
C9_WitnessEmpty == pc = "done" /\ file_type = ".txt" /\ file_content = "a: b\nc: d" /\ texts = <<>>

\* C10: for .json content that does not parse, the output is exactly the
\* non-empty stripped lines of the content in order, whatever their length.
C10_FallbackAllLines ==
    (file_type = ".json" /\ ~loads(file_content).ok /\ pc = "done") =>
        texts = StripAll(SelectSeq(split(file_content), LAMBDA l : strip(l) # ""))

\* Lines of 4 and 9 characters are kept by the fallback.
C10_Witness ==
    /\ pc = "done" /\ file_type = ".json"
    /\ file_content = "a: b\n{bad json\n"
    /\ texts = <<"a: b", "{bad json">>


\* ================================================= src/server: the managers
\* ----------------------------------------------------- more string helpers
\* The ASCII letters and digits, the characters str.isalnum() accepts.
Alnum == "abcdefghijklmnopqrstuvwxyzABCDEFGHIJKLMNOPQRSTUVWXYZ0123456789"

\* The set of those characters.
AlnumChars == {CharAt(Alnum, i) : i \in 1..Len(Alnum)}

RECURSIVE AlnumOnly(_)
\* ''.join(c for c in s if c.isalnum())
AlnumOnly(s) ==
    IF s = "" THEN ""
    ELSE (IF Head(s) \in AlnumChars THEN Head(s) ELSE "") \o AlnumOnly(Tail(s))

\* s.isalnum(): s is not empty and every character is a letter or a digit.
isalnum(s) == s # "" /\ \A i \in 1..Len(s) : CharAt(s, i) \in AlnumChars

RECURSIVE Remove(_, _)
\* s.replace(c, '') for a character c.
Remove(s, c) ==
    IF s = "" THEN ""
    ELSE (IF Head(s) = c THEN "" ELSE Head(s)) \o Remove(Tail(s), c)

\* sub in s: sub occurs in s as a substring.
In(sub, s) == \E i \in 1..(Len(s) + 1) : Slice(s, i, i + Len(sub) - 1) = sub

RECURSIVE LStripHyphens(_, _)
\* The first position >= i of s that holds no hyphen.
LStripHyphens(s, i) ==
    IF i <= Len(s) /\ CharAt(s, i) = "-" THEN LStripHyphens(s, i + 1) ELSE i

RECURSIVE RStripHyphens(_, _)
\* The last position <= j of s that holds no hyphen.
RStripHyphens(s, j) ==
    IF j >= 1 /\ CharAt(s, j) = "-" THEN RStripHyphens(s, j - 1) ELSE j

\* s.strip('-')
StripHyphens(s) == Slice(s, LStripHyphens(s, 1), RStripHyphens(s, Len(s)))

\* ------------------------------------------------------ the managers' data
\* S3_BUCKET_NAME, where the environment does not set it.
s3_bucket == "llm-tuner-user-uploads"

\* instance_costs of _get_instance_cost, in ten-thousandths of a dollar an
\* hour.
instance_costs ==
    "ml.t3.medium" :> 416 @@ "ml.c5.large" :> 850 @@ "ml.m5.large" :> 960
    @@ "ml.m5.xlarge" :> 1920 @@ "ml.m5.2xlarge" :> 3840 @@ "ml.c5.xlarge" :> 1700
    @@ "ml.g5.large" :> 6100 @@ "ml.g5.xlarge" :> 10100 @@ "ml.g5.2xlarge" :> 12100
    @@ "ml.g5.4xlarge" :> 18300 @@ "ml.g5.8xlarge" :> 24200
    @@ "ml.p3.2xlarge" :> 30600 @@ "ml.p3.8xlarge" :> 122400
    @@ "ml.p3.16xlarge" :> 244800

\* The cost of an instance type instance_costs does not hold: 0.10.
DefaultCost == 1000

\* _get_instance_cost(instance_type)
_get_instance_cost(instance_type) ==
    IF instance_type \in DOMAIN instance_costs
    THEN instance_costs[instance_type]
    ELSE DefaultCost

\* datetime.now().strftime("%Y%m%d%H%M%S") at second t of the run.
Timestamp(t) == "202507041200" \o (IF t < 10 THEN "0" ELSE "") \o NatStr(t)

\* The longest job name generate_job_name returns.
MaxNameLen == 63

\* The number of characters of the user id generate_job_name keeps.
UserPrefixLen == 8

\* generate_job_name(user_id, base_model) at second t.
generate_job_name(user_id, base_model, t) ==
    Slice(StripHyphens("llm-tune-" \o Slice(AlnumOnly(user_id), 1, UserPrefixLen)
                       \o "-" \o AlnumOnly(base_model) \o "-" \o Timestamp(t)),
          1, MaxNameLen)

\* The ARN of the training job of a name.
JobArn(job_name) ==
    "arn:aws:sagemaker:us-east-1:103259692132:training-job/" \o job_name

\* prepare_training_data(user_id, uploaded_files): the URI of the JSONL
\* file it writes.
prepare_training_data(user_id) ==
    "s3://" \o s3_bucket \o "/users/" \o user_id \o "/training-data/train.jsonl"

\* output_s3_uri of create_training_job.
OutputUri(user_id, job_name) ==
    "s3://" \o s3_bucket \o "/users/" \o user_id \o "/models/" \o job_name \o "/"

\* The dict _create_real_sagemaker_job returns.
RealJob(job_name, user_id, base_model, instance_type, hyperparameters, t) ==
    [job_name |-> job_name,
     job_arn |-> JobArn(job_name),
     status |-> "InProgress",
     training_data_s3_uri |-> prepare_training_data(user_id),
     output_s3_uri |-> OutputUri(user_id, job_name),
     instance_type |-> instance_type,
     created_at |-> t,
     estimated_cost_per_hour |-> _get_instance_cost(instance_type),
     hyperparameters |-> hyperparameters,
     base_model |-> base_model,
     user_id |-> user_id,
     note |-> "Real AWS SageMaker training job with custom script"]

\* The dict _create_demo_training_job builds, stores and returns.
DemoJob(job_name, user_id, base_model, instance_type, t) ==
    [job_name |-> job_name,
     job_arn |-> JobArn(job_name),
     status |-> "Completed",
     training_data_s3_uri |-> prepare_training_data(user_id),
     output_s3_uri |-> OutputUri(user_id, job_name),
     instance_type |-> instance_type,
     created_at |-> t,
     estimated_cost_per_hour |-> _get_instance_cost(instance_type),
     estimated_cost |-> _get_instance_cost(instance_type) * 2,
     model_artifacts_s3_uri |-> OutputUri(user_id, job_name) \o "model.tar.gz",
     training_metrics |-> <<[metric_name |-> "train_loss", value |-> 245],
                            [metric_name |-> "eval_loss", value |-> 198]>>,
     note |-> "Demo: Complete training workflow with real data processing",
     user_id |-> user_id,
     base_model |-> base_model]

\* The position of the job of a name in a list of jobs, 0 if there is none.
JobIndex(jobs, job_name) ==
    IF \E i \in 1..Len(jobs) : jobs[i].job_name = job_name
    THEN CHOOSE i \in 1..Len(jobs) : jobs[i].job_name = job_name
    ELSE 0

\* self.demo_jobs[job_name] = demo_job: a name the dict holds keeps its
\* place and takes the new record.
Store(jobs, job) ==
    IF JobIndex(jobs, job.job_name) = 0 THEN Append(jobs, job)
    ELSE [jobs EXCEPT ![JobIndex(jobs, job.job_name)] = job]

\* ------------------------------------------------------------- the inputs
\* User ids as auth.py makes them: user_ and 22 URL-safe characters, or
\* google_ and the 21 digits of a Google account id.
Users == {"user_Ab3d-fGhIjKlMnOpQrStUv", "google_104857600123456789012"}

\* The base model of the requests.
BaseModels == {"llama-2-7b"}

\* The instance types of the requests.
InstanceTypes == {"ml.m5.large", "ml.g5.2xlarge"}

\* Hyperparameters(): the pydantic model with its defaults, and
\* model_dump() of it, a dict of the same fields.
DefaultHyperparameters ==
    JDict(<<"learning_rate", "batch_size", "epochs", "optimizer", "weight_decay",
            "max_sequence_length">>,
          <<JFloat("0.001"), JInt(32), JInt(10), JStr("adam"), JFloat("0.01"),
            JInt(2048)>>)

\* The largest number of training jobs the create calls of a run return.
MaxJobs == 2

\* The seconds of the run.
Seconds == {0, 1}

\* ----------------------------------------------- the external service
\* The training job the service holds after an accepted create call.
ServiceJob(job_name, instance_type, t) ==
    [TrainingJobName |-> job_name, InstanceType |-> instance_type,
     CreationTime |-> t, TrainingJobStatus |-> "InProgress"]

\* The service holds a training job of this name.
ServiceHas(job_name) == \E i \in 1..Len(sm_jobs) : sm_jobs[i].TrainingJobName = job_name

\* The training job of a name the service holds.
ServiceGet(job_name) ==
    sm_jobs[CHOOSE i \in 1..Len(sm_jobs) : sm_jobs[i].TrainingJobName = job_name]

\* -------------------------------------------- SageMakerTrainingManager
\* What a call of a manager method gives: it raised, or it returned job.
NoJob == [job_name |-> ""]
Raised(msg) == [raised |-> TRUE, error |-> msg, job |-> NoJob, kind |-> "none"]
Returned(job, kind) == [raised |-> FALSE, error |-> "", job |-> job, kind |-> kind]

\* if not job_name.replace('-', '').replace('_', '').isalnum(): raise
ValidJobName(job_name) == isalnum(Remove(Remove(job_name, "-"), "_"))

\* The arguments of a create call.
CreateArgs(job_name, user_id, base_model, instance_type) ==
    [job_name |-> job_name, user_id |-> user_id, base_model |-> base_model,
     hyperparameters |-> DefaultHyperparameters, instance_type |-> instance_type]

\* A faulty create_training_job that answers a failed call with an error.
create_training_job_NoFallback(a, s3_ok, call_ok) ==
    IF ~aws_configured
    THEN Raised("AWS SageMaker is not configured.")
    ELSE IF ~s3_ok
    THEN Raised("Failed to create training job")
    ELSE IF call_ok /\ ValidJobName(a.job_name) /\ ~ServiceHas(a.job_name)
    THEN Returned(RealJob(a.job_name, a.user_id, a.base_model, a.instance_type,
                          a.hyperparameters, now), "real")
    ELSE Raised("Failed to create training job")

\* create_training_job(job_name, user_id, base_model, training_files,
\* hyperparameters, instance_type).  s3_ok: the put_object of
\* prepare_training_data succeeds; call_ok: the calls of
\* _create_real_sagemaker_job reach the service, which accepts a new name.
create_training_job(a, s3_ok, call_ok) ==
    IF ~aws_configured
    THEN Raised("AWS SageMaker is not configured.")
    ELSE IF ~s3_ok
    THEN Raised("Failed to create training job")
    ELSE IF call_ok /\ ValidJobName(a.job_name) /\ ~ServiceHas(a.job_name)
    THEN Returned(RealJob(a.job_name, a.user_id, a.base_model, a.instance_type,
                          a.hyperparameters, now), "real")
    ELSE Returned(DemoJob(a.job_name, a.user_id, a.base_model, a.instance_type, now),
                  "demo")

\* The state a create call leaves: a real job is the service's, a demo job
\* is stored in demo_jobs.
CreateEffect(r) ==
    /\ sm_jobs' = IF r.kind = "real"
                  THEN Append(sm_jobs, ServiceJob(r.job.job_name, r.job.instance_type, now))
                  ELSE sm_jobs
    /\ demo_jobs' = IF r.kind = "demo" THEN Store(demo_jobs, r.job) ELSE demo_jobs
    /\ UNCHANGED <<aws_configured, now>>

\* The history entry of a create call that returned a job.
Creation(path, user_id, r) ==
    [path |-> path, user |-> user_id, job_name |-> r.job.job_name,
     instance_type |-> r.job.instance_type, kind |-> r.kind]

\* created after a create call.
Record(path, user_id, r) ==
    created' = IF r.raised THEN created ELSE created \cup {Creation(path, user_id, r)}

\* ------------------------------------------------- JumpStartTrainingManager
\* model_id_mapping.get(base_model, 'huggingface-llm-llama-2-7b-f')
ModelId(base_model) ==
    CASE base_model = "llama-2-7b"  -> "huggingface-llm-llama-2-7b-f"
      [] base_model = "llama-2-13b" -> "huggingface-llm-llama-2-13b-f"
      [] base_model = "flan-t5-xl"  -> "huggingface-text2text-flan-t5-xl"
      [] OTHER                      -> "huggingface-llm-llama-2-7b-f"

\* The number of characters of the user id a JumpStart job name keeps.
JumpStartPrefixLen == 10

\* The job name start_jumpstart_training composes:
\* jumpstart-{user_id[:10] without @ and .}-{base_model}-{%Y%m%d-%H%M%S}
JumpStartJobName(user_id, base_model, t) ==
    "jumpstart-" \o Remove(Remove(Slice(user_id, 1, JumpStartPrefixLen), "@"), ".")
    \o "-" \o base_model \o "-" \o Slice(Timestamp(t), 1, 8) \o "-"
    \o Slice(Timestamp(t), 9, 14)

\* The dict create_jumpstart_training_job returns when the service
\* accepted the job.
JumpStartJob(a) ==
    [job_name |-> a.job_name,
     job_arn |-> JobArn(a.job_name),
     status |-> "InProgress",
     model_id |-> ModelId(a.base_model),
     training_data_s3_uri |-> "s3://" \o s3_bucket \o "/users/" \o a.user_id
                              \o "/training-data/",
     output_s3_uri |-> OutputUri(a.user_id, a.job_name),
     instance_type |-> a.instance_type,
     created_at |-> now]

\* The dict of its except branch: the same with a note.
JumpStartDemoJob(a) ==
    [job_name |-> a.job_name,
     job_arn |-> JobArn(a.job_name),
     status |-> "InProgress",
     model_id |-> ModelId(a.base_model),
     training_data_s3_uri |-> "s3://" \o s3_bucket \o "/users/" \o a.user_id
                              \o "/training-data/",
     output_s3_uri |-> OutputUri(a.user_id, a.job_name),
     instance_type |-> a.instance_type,
     created_at |-> now,
     note |-> "Demo training job - JumpStart integration in progress"]

\* create_jumpstart_training_job(model_id, job_name, training_data_s3_uri,
\* output_s3_uri, hyperparameters, instance_type).  call_ok: the call
\* reaches the service, which accepts a new name.
create_jumpstart_training_job(a, call_ok) ==
    IF call_ok /\ ~ServiceHas(a.job_name)
    THEN Returned(JumpStartJob(a), "real")
    ELSE Returned(JumpStartDemoJob(a), "demo")

\* The state create_jumpstart_training_job leaves: a real job is the
\* service's, the demo dict is only returned.
JumpStartEffect(r) ==
    /\ sm_jobs' = IF r.kind = "real"
                  THEN Append(sm_jobs, ServiceJob(r.job.job_name, r.job.instance_type, now))
                  ELSE sm_jobs
    /\ UNCHANGED <<aws_configured, demo_jobs, now>>

\* ------------------------------------------------ the response models
\* The fields of SageMakerTrainingResponse, all required.
ResponseFields ==
    {"job_name", "job_arn", "status", "training_data_s3_uri", "output_s3_uri",
     "instance_type", "created_at", "estimated_cost_per_hour"}

\* An answer of an endpoint: the status code and the body.
Answer(code, body) == [code |-> code, body |-> body]

\* The body of an error answer.
ErrorBody(detail) == [detail |-> detail]

\* SageMakerTrainingResponse(**d): a ValidationError when d lacks a field,
\* else the fields of the model (what else d holds is ignored).
SageMakerTrainingResponse(d) ==
    IF ResponseFields \subseteq DOMAIN d
    THEN [ok |-> TRUE, body |-> [f \in ResponseFields |-> d[f]]]
    ELSE [ok |-> FALSE, body |-> ErrorBody("validation error")]

\* The fields of TrainingJobStatus that have no default.
StatusRequired ==
    {"job_name", "status", "creation_time", "duration_seconds", "instance_type",
     "training_metrics", "estimated_cost"}

\* The fields of TrainingJobStatus.
StatusFields ==
    StatusRequired \cup {"start_time", "end_time", "failure_reason",
                         "model_artifacts_s3_uri"}

\* TrainingJobStatus(**d)
TrainingJobStatus(d) ==
    IF StatusRequired \subseteq DOMAIN d
    THEN [ok |-> TRUE,
          body |-> [f \in StatusFields |-> IF f \in DOMAIN d THEN d[f] ELSE "None"]]
    ELSE [ok |-> FALSE, body |-> ErrorBody("validation error")]

\* ------------------------------------------------ status and list
\* get_training_job_status(job_name).  describe_ok: describe_training_job
\* reaches the service, which knows the names it holds.
get_training_job_status(job_name, describe_ok) ==
    IF JobIndex(demo_jobs, job_name) # 0
    THEN LET demo_job == demo_jobs[JobIndex(demo_jobs, job_name)]
         IN  Returned([job_name |-> job_name,
                       status |-> demo_job.status,
                       creation_time |-> demo_job.created_at,
                       start_time |-> demo_job.created_at,
                       end_time |-> demo_job.created_at,
                       duration_seconds |-> 7200,
                       instance_type |-> demo_job.instance_type,
                       failure_reason |-> "None",
                       model_artifacts_s3_uri |-> demo_job.model_artifacts_s3_uri,
                       training_metrics |-> demo_job.training_metrics,
                       estimated_cost |-> demo_job.estimated_cost], "demo")
    ELSE IF ~aws_configured
    THEN Raised("Training job not found")
    ELSE IF describe_ok /\ ServiceHas(job_name)
    THEN LET response == ServiceGet(job_name)
         IN  Returned([job_name |-> job_name,
                       status |-> response.TrainingJobStatus,
                       creation_time |-> response.CreationTime,
                       start_time |-> "None",
                       end_time |-> "None",
                       duration_seconds |-> 0,
                       instance_type |-> response.InstanceType,
                       failure_reason |-> "None",
                       model_artifacts_s3_uri |->
                           IF "ModelArtifacts" \in DOMAIN response
                           THEN response.ModelArtifacts ELSE "None",
                       training_metrics |-> <<>>,
                       estimated_cost |-> 0], "real")
    ELSE Raised("Training job not found")

\* The entry of list_training_jobs for a demo job.
DemoEntry(job_details) ==
    [job_name |-> job_details.job_name,
     status |-> job_details.status,
     creation_time |-> job_details.created_at,
     training_start_time |-> job_details.created_at,
     training_end_time |-> job_details.created_at,
     instance_type |-> job_details.instance_type,
     estimated_cost |-> job_details.estimated_cost,
     base_model |-> job_details.base_model,
     note |-> job_details.note]

\* The entry of list_training_jobs for a job of the service.
ServiceEntry(job) ==
    [job_name |-> job.TrainingJobName,
     status |-> job.TrainingJobStatus,
     creation_time |-> job.CreationTime,
     training_start_time |-> "None",
     training_end_time |-> "None",
     instance_type |-> "ml.m5.large",
     base_model |-> "sagemaker-job"]

\* MaxResults of the list call.
MaxResults == 50

RECURSIVE InsertByTime(_, _)
\* sorted with j put after the entries that are as new or newer.
InsertByTime(sorted, j) ==
    IF sorted = <<>> THEN <<j>>
    ELSE IF Head(sorted).creation_time >= j.creation_time
         THEN <<Head(sorted)>> \o InsertByTime(Tail(sorted), j)
         ELSE <<j>> \o sorted

RECURSIVE SortNewestFirst(_, _)
\* jobs.sort(key=lambda x: x['creation_time'], reverse=True), a stable
\* sort: the entries of jobs inserted into acc one after the other.
SortNewestFirst(jobs, acc) ==
    IF jobs = <<>> THEN acc
    ELSE SortNewestFirst(Tail(jobs), InsertByTime(acc, Head(jobs)))

\* response['TrainingJobSummaries'] of list_training_jobs(SortBy=
\* 'CreationTime', SortOrder='Descending', MaxResults=50): the newest
\* jobs of the service, the newest first.
TrainingJobSummaries ==
    LET n == Len(sm_jobs)
    IN  SubSeq([i \in 1..n |-> sm_jobs[n + 1 - i]], 1, IF n < MaxResults THEN n ELSE MaxResults)

\* user_id.replace('@', '').replace('.', '') in job['TrainingJobName']
OwnedByName(user_id, job_name) == In(Remove(Remove(user_id, "@"), "."), job_name)

\* job_details.get('user_id') == user_id
OwnedDemo(user_id, job_details) == job_details.user_id = user_id

\* list_training_jobs(user_id).  list_ok: the list call reaches the
\* service (a ClientError is caught and leaves the demo jobs).
list_training_jobs(user_id, list_ok) ==
    LET mine == SelectSeq(demo_jobs, LAMBDA j : OwnedDemo(user_id, j))
        theirs == IF aws_configured /\ list_ok
                  THEN SelectSeq(TrainingJobSummaries,
                                 LAMBDA j : OwnedByName(user_id, j.TrainingJobName))
                  ELSE <<>>
    IN  SortNewestFirst([i \in 1..Len(mine) |-> DemoEntry(mine[i])]
                        \o [i \in 1..Len(theirs) |-> ServiceEntry(theirs[i])], <<>>)

\* -------------------------------------------------------- the calls
\* The job names a status lookup is made with: those the create calls
\* returned and one that no call returned.
LookupNames == {c.job_name : c \in created} \cup {"llm-tune-nobody-gpt2-20250704115959"}

\* The clock advances by a second.
Tick ==
    /\ now + 1 \in Seconds
    /\ now' = now + 1
    /\ UNCHANGED <<aws_configured, demo_jobs, sm_jobs, created, last>>
    /\ UNCHANGED <<vars, apiVars, mainVars>>

\* A caller calls sagemaker_manager.create_training_job with the name
\* generate_job_name gives.
CreateTrainingJob ==
    /\ Cardinality(created) < MaxJobs
    /\ \E u \in Users, m \in BaseModels, it \in InstanceTypes,
          s3_ok \in BOOLEAN, call_ok \in BOOLEAN :
         \E a \in {CreateArgs(generate_job_name(u, m, now), u, m, it)} :
         \E r \in {create_training_job(a, s3_ok, call_ok)} :
             /\ CreateEffect(r)
             /\ Record("sagemaker", u, r)
             /\ last' = [op |-> "create", path |-> "sagemaker", via |-> "method",
                         args |-> a, unavailable |-> ~aws_configured,
                         prepared |-> aws_configured /\ s3_ok,
                         call_failed |-> aws_configured /\ s3_ok /\ r.kind # "real",
                         r |-> r, answer |-> Answer(0, <<>>)]
    /\ UNCHANGED <<vars, apiVars, mainVars>>

\* POST /api/sagemaker-training: generate_job_name, prepare_training_data
\* (whose put_object has no client on a manager that is not configured),
\* create_training_job, SageMakerTrainingResponse(**training_job); any
\* exception becomes the answer 500.
StartSageMakerTraining ==
    /\ Cardinality(created) < MaxJobs
    /\ \E u \in Users, m \in BaseModels, it \in InstanceTypes,
          s3_ok \in BOOLEAN, call_ok \in BOOLEAN :
         \E a \in {CreateArgs(generate_job_name(u, m, now), u, m, it)} :
         \E r \in {IF aws_configured /\ s3_ok
                    THEN create_training_job(a, s3_ok, call_ok)
                    ELSE Raised("prepare_training_data")} :
         \E resp \in {SageMakerTrainingResponse(r.job)} :
             /\ CreateEffect(r)
             /\ Record("sagemaker", u, r)
             /\ last' = [op |-> "create", path |-> "sagemaker", via |-> "endpoint",
                         args |-> a, unavailable |-> ~aws_configured,
                         prepared |-> aws_configured /\ s3_ok,
                         call_failed |-> aws_configured /\ s3_ok /\ r.kind # "real",
                         r |-> r,
                         answer |-> IF r.raised \/ ~resp.ok
                                    THEN Answer(500, ErrorBody("Failed to start SageMaker training"))
                                    ELSE Answer(200, resp.body)]
    /\ UNCHANGED <<vars, apiVars, mainVars>>

\* A caller calls JumpStartTrainingManager().create_jumpstart_training_job
\* with the job name and the URIs start_jumpstart_training composes.  The
\* constructor makes its clients as SageMakerTrainingManager does, without
\* a try: where those could not be made there is no manager to call.
CreateJumpStartTrainingJob ==
    /\ aws_configured
    /\ Cardinality(created) < MaxJobs
    /\ \E u \in Users, m \in BaseModels, it \in InstanceTypes, call_ok \in BOOLEAN :
         \E a \in {CreateArgs(JumpStartJobName(u, m, now), u, m, it)} :
         \E r \in {create_jumpstart_training_job(a, call_ok)} :
             /\ JumpStartEffect(r)
             /\ Record("jumpstart", u, r)
             /\ last' = [op |-> "create", path |-> "jumpstart", via |-> "method",
                         args |-> a, unavailable |-> FALSE, prepared |-> TRUE,
                         call_failed |-> r.kind # "real",
                         r |-> r, answer |-> Answer(0, <<>>)]
    /\ UNCHANGED <<vars, apiVars, mainVars>>

\* POST /api/jumpstart-training: the handler evaluates datetime.now() where
\* main.py imports only timedelta from datetime; the NameError is caught by
\* its except Exception and becomes the answer 500 before any job name is
\* composed or any manager method is called.
StartJumpStartTraining ==
    /\ \E u \in Users, m \in BaseModels, it \in InstanceTypes :
         last' = [op |-> "create", path |-> "jumpstart", via |-> "endpoint",
                  args |-> CreateArgs("", u, m, it), unavailable |-> ~aws_configured,
                  prepared |-> FALSE, call_failed |-> FALSE,
                  r |-> Raised("name 'datetime' is not defined"),
                  answer |-> Answer(500, ErrorBody("JumpStart training job creation failed"))]
    /\ UNCHANGED <<aws_configured, demo_jobs, sm_jobs, now, created>>
    /\ UNCHANGED <<vars, apiVars, mainVars>>

\* GET /api/training-job/{job_name}: get_training_job_status and
\* TrainingJobStatus(**status); any exception becomes the answer 500.
GetTrainingJobStatus ==
    /\ \E n \in LookupNames, describe_ok \in BOOLEAN :
         \E r \in {get_training_job_status(n, describe_ok)} :
         \E resp \in {TrainingJobStatus(r.job)} :
             last' = [op |-> "status", job_name |-> n, describe_ok |-> describe_ok,
                      r |-> r,
                      answer |-> IF r.raised \/ ~resp.ok
                                 THEN Answer(500, ErrorBody("Failed to get training job status"))
                                 ELSE Answer(200, resp.body)]
    /\ UNCHANGED <<aws_configured, demo_jobs, sm_jobs, now, created>>
    /\ UNCHANGED <<vars, apiVars, mainVars>>

\* GET /api/training-jobs: list_training_jobs(user_id) of the current user.
ListTrainingJobs ==
    /\ \E u \in Users, list_ok \in BOOLEAN :
         last' = [op |-> "list", user |-> u, list_ok |-> list_ok,
                  answer |-> Answer(200, [training_jobs |-> list_training_jobs(u, list_ok)])]
    /\ UNCHANGED <<aws_configured, demo_jobs, sm_jobs, now, created>>
    /\ UNCHANGED <<vars, apiVars, mainVars>>

\* SageMakerTrainingManager(): the clients were made, or making one raised.
InitJobs ==
    /\ ReadDataIdle
    /\ aws_configured \in BOOLEAN
    /\ demo_jobs = <<>>
    /\ sm_jobs = <<>>
    /\ now = 0
    /\ created = {}
    /\ last = NoCall
    /\ ApiIdle
    /\ MainIdle

NextJobs ==
    \/ Tick
    \/ CreateTrainingJob \/ StartSageMakerTraining
    \/ CreateJumpStartTrainingJob \/ StartJumpStartTraining
    \/ GetTrainingJobStatus \/ ListTrainingJobs

allVars == <<vars, others>>

SpecJobs == InitJobs /\ [][NextJobs]_allVars

\* ------------------------------------------- the claims on training jobs
\* The last call was a create call of the SageMaker manager's method.
CreateMethodCall ==
    last.op = "create" /\ last.path = "sagemaker" /\ last.via = "method"

\* The job names of the answer of the last call, a list call.
ListedNames ==
    {last.answer.body.training_jobs[i].job_name :
        i \in 1..Len(last.answer.body.training_jobs)}

\* C11: for every user U, list_training_jobs(U) (the service answering)
\* returns every job U created through create_training_job, a real job
\* named by generate_job_name or a demo job, and no job another user
\* created.
C11_ListsOwnJobsOnly ==
    (last.op = "list" /\ last.list_ok) =>
        \A c \in created :
            c.path = "sagemaker" => (c.job_name \in ListedNames <=> c.user = last.user)

\* The demo job the registry holds under the name of the last create call
\* is the record that call returned.
DemoStored ==
    /\ JobIndex(demo_jobs, last.args.job_name) # 0
    /\ demo_jobs[JobIndex(demo_jobs, last.args.job_name)] = last.r.job

\* The last create call returned a demo job record.
DemoReturned == ~last.r.raised /\ last.r.kind = "demo" /\ last.r.job.status = "Completed"

\* C12 as stated: whenever the real create call is unavailable (the manager
\* is not configured) or fails, create_training_job returns a demo job
\* record, not an error, and the registry holds it under its job name.
C12_DemoWheneverUnavailableOrFails ==
    (CreateMethodCall /\ (last.unavailable \/ last.call_failed)) =>
        (DemoReturned /\ DemoStored)

\* C12 as amended: when the manager is configured, the training data was
\* prepared and the real create call fails, create_training_job returns a
\* demo job record that the registry holds under its job name; when the
\* manager is not configured or the data was not prepared it raises.
C12_DemoWhenRealCallFails ==
    CreateMethodCall =>
        /\ last.call_failed => (DemoReturned /\ DemoStored)
        /\ (last.unavailable \/ ~last.prepared) <=> last.r.raised

\* A create call whose real call failed after the data was prepared.
C12_Witness ==
    /\ CreateMethodCall /\ last.call_failed /\ ~last.unavailable
    /\ JobIndex(demo_jobs, last.args.job_name) # 0

\* C13: every answer a create endpoint (/api/sagemaker-training,
\* /api/jumpstart-training) gives to a request for which its manager
\* makes a job, real or demo (the SageMaker manager once the data is
\* prepared, the JumpStart manager always), holds job_name, job_arn,
\* status, the training-data URI, the output URI, instance_type,
\* created_at and estimated_cost_per_hour.
C13_CreateAnswerHasAllFields ==
    (/\ last.op = "create" /\ last.via = "endpoint" /\ ~last.unavailable
     /\ last.path = "sagemaker" => last.prepared) =>
        /\ last.answer.code = 200
        /\ ResponseFields \subseteq DOMAIN last.answer.body

\* C14: after a create call (SageMaker or JumpStart, real or demo) has
\* returned the job name N, a status lookup by N (the service answering)
\* succeeds and reports the instance type the job was created with.
C14_StatusAfterCreate ==
    (last.op = "status" /\ last.describe_ok) =>
        \A c \in created :
            c.job_name = last.job_name =>
                /\ last.answer.code = 200
                /\ last.answer.body.instance_type = c.instance_type

\* ------------------------------------------- src/server/main.py: uploads
RECURSIVE RFind(_, _, _)
\* s.rfind(c) over the first j characters of s, as a position from 1 (0:
\* c does not occur).
RFind(s, c, j) ==
    IF j = 0 THEN 0 ELSE IF CharAt(s, j) = c THEN j ELSE RFind(s, c, j - 1)

\* Path(filename).suffix: of the last component of the path, what starts
\* at its last dot, when that dot is neither its first nor its last
\* character.
Suffix(filename) ==
    LET name == Slice(filename, RFind(filename, "/", Len(filename)) + 1, Len(filename))
        p == RFind(name, ".", Len(name))
    IN  IF 1 < p /\ p < Len(name) THEN Slice(name, p, Len(name)) ELSE ""

RECURSIVE lower(_)
\* str.lower() of an ASCII string.
lower(s) ==
    IF s = "" THEN ""
    ELSE LET p == RFind("ABCDEFGHIJKLMNOPQRSTUVWXYZ", Head(s), 26)
         IN  (IF p = 0 THEN Head(s) ELSE CharAt("abcdefghijklmnopqrstuvwxyz", p))
             \o lower(Tail(s))

\* s.endswith(t)
endswith(s, t) == Len(t) <= Len(s) /\ Slice(s, Len(s) - Len(t) + 1, Len(s)) = t

\* The character that stands for a character of two UTF-8 bytes.
Wide == "~"

\* len(content) of the bytes that decode to s.
ByteLen(s) == Len(s) + Cardinality({i \in 1..Len(s) : CharAt(s, i) = Wide})

\* The length of the preview of an uploaded file's content.
PreviewLen == 200

\* A faulty preview that cuts the content and adds nothing.
contentPreview_Cut(content_str) == Slice(content_str, 1, PreviewLen)

\* content_str[:200] + ("..." if len(content_str) > 200 else "")
contentPreview(content_str) ==
    Slice(content_str, 1, PreviewLen)
        \o (IF Len(content_str) > PreviewLen THEN "..." ELSE "")

\* upload_to_s3: the key of the object it puts.
S3Key(user_id, file_id, file_name) ==
    "users/" \o user_id \o "/uploads/" \o file_id \o "_" \o file_name

\* The values of str(uuid.uuid4()) a request draws for its files.
FileIds ==
    {<<"1b4e28ba-2fa1-41d2-883f-0016d3cca427", "6fa459ea-ee8a-4ca4-894e-db77e160355e">>,
     <<"6fa459ea-ee8a-4ca4-894e-db77e160355e", "1b4e28ba-2fa1-41d2-883f-0016d3cca427">>}

\* Texts of 25, 199, 200 and 201 characters; the second line of Text25 holds
\* a character of two bytes.
Text25 == "The quick brown fox.\n" \o Wide \o "tre"
Text200 == Text25 \o Text25 \o Text25 \o Text25 \o Text25 \o Text25 \o Text25 \o Text25
Text199 == Slice(Text200, 1, PreviewLen - 1)
Text201 == Text200 \o "!"

\* The files of upload requests: the name, the text the bytes decode to,
\* and whether they decode as UTF-8 at all.
UploadFile(filename, content_str, utf8) ==
    [filename |-> filename, content_str |-> content_str, utf8 |-> utf8]

\* The file lists of upload requests.
UploadLists ==
    {<<UploadFile("data.txt", Text25, TRUE)>>,
     <<UploadFile("Notes.TXT", Text201, TRUE), UploadFile("archive.tar.GZ", Text200, TRUE)>>,
     <<UploadFile("README", Text199, TRUE), UploadFile("latin1.csv", "", FALSE)>>,
     <<UploadFile("data.txt", Text25, TRUE), UploadFile("", "text", TRUE)>>}

\* The entry of processed_files for a file stored under s3_key.
UploadEntry(file, s3_key) ==
    [originalName |-> file.filename, size |-> ByteLen(file.content_str),
     type |-> lower(Suffix(file.filename)),
     contentPreview |-> contentPreview(file.content_str), s3_key |-> s3_key]

RECURSIVE upload_files(_, _, _)
\* upload_files: the loop over files after i of them gave the entries acc
\* and left the keys in q.keys.  q.user_id is the current user's id,
\* q.files the request's files, q.ids the uuids drawn, q.fail_at the file
\* whose put_object fails (0: none does).  A raised exception ends the
\* loop; the objects put before it stay.
upload_files(q, i, acc) ==
    IF i = Len(q.files)
    THEN [keys |-> q.keys,
          answer |-> Answer(200, [message |-> "Files uploaded and processed successfully",
                                  files |-> acc])]
    ELSE LET file == q.files[i + 1]
             s3_key == S3Key(q.user_id, q.ids[i + 1], file.filename)
         IN  IF file.filename = ""
             THEN [keys |-> q.keys, answer |-> Answer(400, ErrorBody("Invalid filename"))]
             ELSE IF ~file.utf8
             THEN [keys |-> q.keys, answer |-> Answer(500, ErrorBody("Internal Server Error"))]
             ELSE IF q.fail_at = i + 1
             THEN [keys |-> q.keys, answer |-> Answer(500, ErrorBody("Failed to upload file to S3"))]
             ELSE upload_files([q EXCEPT !.keys = @ \cup {s3_key}], i + 1,
                               Append(acc, UploadEntry(file, s3_key)))

\* ----------------------------------- src/server/main.py: start_training
\* Hyperparameters other than the defaults: a float json.dumps writes with
\* an exponent, a float without a fraction, a string json.dumps escapes.
OtherHyperparameters ==
    JDict(<<"learning_rate", "batch_size", "epochs", "optimizer", "weight_decay",
            "max_sequence_length">>,
          <<JFloat("5e-05"), JInt(8), JInt(3), JStr("adam\"w\\"), JFloat("0.0"),
            JInt(512)>>)

\* The file lists of start-training requests.
FileLists ==
    {<<"data.txt">>, <<"README">>, <<"missing.json", "data.txt">>,
     <<"data.txt", "data.txt">>, <<"archive.tar.GZ", "Notes.TXT">>}

\* start_training's search of the listing of the user's folder: some key
\* holds filename and does not end with content_<filename>.
InBucket(keys, user_id, filename) ==
    \E k \in keys :
        /\ Slice(k, 1, Len(S3Key(user_id, "", "")) - 1) = "users/" \o user_id \o "/uploads/"
        /\ In(filename, k)
        /\ ~endswith(k, "content_" \o filename)

\* The command line of the tuning script for a file.
Cmd(filename, hyperparameters) ==
    [file_name |-> filename, file_type |-> lower(Suffix(filename)),
     hyperparameters |-> dumps(hyperparameters)]

\* The entry of processed_files for a file.
TrainingEntry(filename) ==
    [fileName |-> filename,
     tuningInfo |-> [tuningScript |-> "gpt2_tuning.py", fileName |-> filename,
                     fileType |-> lower(Suffix(filename))]]

RECURSIVE start_training_EveryFile(_, _, _, _)
\* A faulty start_training that gives an entry to a file it did not
\* process.
start_training_EveryFile(q, i, acc, cmds) ==
    IF i = Len(q.files)
    THEN [cmds |-> cmds,
          answer |-> Answer(200, [message |-> "Training completed successfully",
                                  hyperparameters |-> q.hyperparameters,
                                  files |-> acc])]
    ELSE LET filename == q.files[i + 1]
         IN  IF ~(q.ok[i + 1] /\ InBucket(q.keys, q.user_id, filename))
             THEN start_training_EveryFile(q, i + 1, Append(acc, TrainingEntry(filename)), cmds)
             ELSE start_training_EveryFile(q, i + 1, Append(acc, TrainingEntry(filename)),
                                 Append(cmds, Cmd(filename, q.hyperparameters)))

RECURSIVE start_training_Defaults(_, _, _, _)
\* A faulty start_training that runs the script with the default
\* hyperparameters.
start_training_Defaults(q, i, acc, cmds) ==
    IF i = Len(q.files)
    THEN [cmds |-> cmds,
          answer |-> Answer(200, [message |-> "Training completed successfully",
                                  hyperparameters |-> q.hyperparameters,
                                  files |-> acc])]
    ELSE LET filename == q.files[i + 1]
         IN  IF ~(q.ok[i + 1] /\ InBucket(q.keys, q.user_id, filename))
             THEN start_training_Defaults(q, i + 1, acc, cmds)
             ELSE start_training_Defaults(q, i + 1, Append(acc, TrainingEntry(filename)),
                                 Append(cmds, Cmd(filename, DefaultHyperparameters)))

RECURSIVE start_training(_, _, _, _)
\* start_training: the loop over request.files after i of them gave the
\* entries acc and the script runs cmds.  q.user_id is the current user's
\* id, q.hyperparameters and q.files the request, q.keys the bucket's keys,
\* q.ok[k] whether the S3 calls, the decoding and the temporary file of the
\* k-th file succeed.  A file that is not found is skipped by continue, a
\* file whose processing raises by the except clause; neither the script's
\* exit status nor its timeout keeps its file from the summary.
start_training(q, i, acc, cmds) ==
    IF i = Len(q.files)
    THEN [cmds |-> cmds,
          answer |-> Answer(200, [message |-> "Training completed successfully",
                                  hyperparameters |-> q.hyperparameters,
                                  files |-> acc])]
    ELSE LET filename == q.files[i + 1]
         IN  IF ~(q.ok[i + 1] /\ InBucket(q.keys, q.user_id, filename))
             THEN start_training(q, i + 1, acc, cmds)
             ELSE start_training(q, i + 1, Append(acc, TrainingEntry(filename)),
                                 Append(cmds, Cmd(filename, q.hyperparameters)))

\* Uploads arrive while the bucket holds fewer than MaxObjects objects.
MaxObjects == 1

\* POST /api/upload by the user user_id.
UploadFilesRequest ==
    /\ Cardinality(bucket) < MaxObjects
    /\ \E user_id \in Users, files \in UploadLists, ids \in FileIds :
       \E fail_at \in 0..Len(files) :
       \E r \in {upload_files([user_id |-> user_id, files |-> files, ids |-> ids,
                               fail_at |-> fail_at, keys |-> bucket], 0, <<>>)} :
          /\ bucket' = r.keys
          /\ last' = [op |-> "upload", user_id |-> user_id, files |-> files,
                      answer |-> r.answer]
    /\ UNCHANGED <<aws_configured, demo_jobs, sm_jobs, now, created, table, issued>>
    /\ UNCHANGED <<vars, mainVars>>

\* POST /api/start-training by the user user_id.
StartTrainingRequest ==
    /\ \E user_id \in Users, files \in FileLists,
          hyperparameters \in {DefaultHyperparameters, OtherHyperparameters} :
       \E ok \in [1..Len(files) -> BOOLEAN] :
       \E r \in {start_training([user_id |-> user_id, hyperparameters |-> hyperparameters,
                                 files |-> files, ok |-> ok, keys |-> bucket],
                                0, <<>>, <<>>)} :
          last' = [op |-> "train", user_id |-> user_id,
                   hyperparameters |-> hyperparameters, files |-> files, ok |-> ok,
                   cmds |-> r.cmds, answer |-> r.answer]
    /\ UNCHANGED <<aws_configured, demo_jobs, sm_jobs, now, created, apiVars>>
    /\ UNCHANGED <<vars, mainVars>>

InitApi == ReadDataIdle /\ JobsIdle /\ ApiIdle /\ MainIdle

NextApi == UploadFilesRequest \/ StartTrainingRequest

SpecApi == InitApi /\ [][NextApi]_allVars

\* ------------------------------- the claims on uploads and start-training
\* The last request was a start-training request; its summary entries.
Trained == last.op = "train"
Summary == last.answer.body.files

\* C15: for every start-training request, the hyperparameters of the
\* response equal those of the request field for field, and the
\* hyperparameters handed to the tuning script for each processed file
\* (the JSON text of --hyperparameters, as the script's json.loads reads
\* it) are the same values.
C15_HyperparametersPassThrough ==
    Trained =>
        /\ last.answer.body.hyperparameters = last.hyperparameters
        /\ \A k \in 1..Len(last.cmds) :
             /\ loads(last.cmds[k].hyperparameters).ok
             /\ loads(last.cmds[k].hyperparameters).v = last.hyperparameters

\* Two files were processed with hyperparameters that are not the defaults.
C15_Witness ==
    /\ Trained /\ Len(last.cmds) = 2
    /\ last.hyperparameters = OtherHyperparameters
    /\ last.cmds[1].hyperparameters =
         "{\"learning_rate\": 5e-05, \"batch_size\": 8, \"epochs\": 3, "
         \o "\"optimizer\": \"adam\\\"w\\\\\", \"weight_decay\": 0.0, "
         \o "\"max_sequence_length\": 512}"

\* The k-th file of the last start-training request was processed: found in
\* the user's folder, downloaded, decoded and written to a temporary file.
Processed(k) == last.ok[k] /\ InBucket(bucket, last.user_id, last.files[k])

\* How many of the first k files of the request were processed.
Rank(k) == Cardinality({j \in 1..k : Processed(j)})

\* C16 as stated: the start-training response holds exactly one summary
\* entry for each file name of the request, in request order, each with
\* that file's name and lower-cased extension.
C16_OneEntryPerFile ==
    Trained =>
        /\ Len(Summary) = Len(last.files)
        /\ \A k \in 1..Len(last.files) :
             /\ Summary[k].fileName = last.files[k]
             /\ Summary[k].tuningInfo.fileType = lower(Suffix(last.files[k]))

\* C16 as amended: the response holds exactly one summary entry for each
\* occurrence of a file name in the request that was processed, in request
\* order, each with that file's name and lower-cased suffix, and no entry
\* for an occurrence that was not processed.
C16_OneEntryPerProcessedFile ==
    Trained =>
        /\ Len(Summary) = Rank(Len(last.files))
        /\ \A k \in 1..Len(last.files) :
             Processed(k) =>
                /\ Summary[Rank(k)].fileName = last.files[k]
                /\ Summary[Rank(k)].tuningInfo.fileName = last.files[k]
                /\ Summary[Rank(k)].tuningInfo.fileType = lower(Suffix(last.files[k]))

\* A request for a file that is not in the bucket and one that is.
C16_Witness ==
    /\ Trained /\ last.files = <<"missing.json", "data.txt">>
    /\ Len(Summary) = 1 /\ Summary[1].fileName = "data.txt"
    /\ Summary[1].tuningInfo.fileType = ".txt"

\* A request whose two files, of upper-case suffixes, were processed.
C16_WitnessBoth ==
    /\ Trained /\ last.files = <<"archive.tar.GZ", "Notes.TXT">>
    /\ Len(Summary) = 2
    /\ Summary[1].tuningInfo.fileType = ".gz" /\ Summary[2].tuningInfo.fileType = ".txt"

\* A processed file whose name has no suffix.
C16_WitnessNoSuffix ==
    /\ Trained /\ last.files = <<"README">>
    /\ Len(Summary) = 1 /\ Summary[1].tuningInfo.fileType = ""

\* The last request was an upload that was answered with its entries.
Uploaded == last.op = "upload" /\ last.answer.code = 200
Entries == last.answer.body.files

\* What C17 says of the k-th entry besides its preview.
EntryOfFile(k) ==
    /\ Entries[k].originalName = last.files[k].filename
    /\ Entries[k].size = ByteLen(last.files[k].content_str)
    /\ Entries[k].type = lower(Suffix(last.files[k].filename))
    /\ Entries[k].s3_key \in bucket

\* C17 as stated: for each file of an upload request the response entry
\* has originalName, size (the byte length), type (the lower-cased
\* extension), a storage key, and contentPreview equal to the first 200
\* characters of the decoded content, never longer than 200 characters.
C17_PreviewIsFirst200 ==
    Uploaded =>
        /\ Len(Entries) = Len(last.files)
        /\ \A k \in 1..Len(Entries) :
             /\ EntryOfFile(k)
             /\ Entries[k].contentPreview = Slice(last.files[k].content_str, 1, PreviewLen)
             /\ Len(Entries[k].contentPreview) <= PreviewLen

\* C17 as amended: contentPreview is the decoded content when that has at
\* most 200 characters, and its first 200 characters followed by "..."
\* (203 characters) when it has more.
C17_PreviewWithEllipsis ==
    Uploaded =>
        /\ Len(Entries) = Len(last.files)
        /\ \A k \in 1..Len(Entries) :
             /\ EntryOfFile(k)
             /\ Len(last.files[k].content_str) <= PreviewLen =>
                   Entries[k].contentPreview = last.files[k].content_str
             /\ Len(last.files[k].content_str) > PreviewLen =>
                   /\ Entries[k].contentPreview =
                        Slice(last.files[k].content_str, 1, PreviewLen) \o "..."
                   /\ Len(Entries[k].contentPreview) = PreviewLen + 3

\* An upload of a file of 201 characters and one of 200 characters, eight
\* of them of two bytes.
C17_Witness ==
    /\ Uploaded /\ Len(Entries) = 2
    /\ Entries[1].originalName = "Notes.TXT" /\ Entries[1].type = ".txt"
    /\ Entries[1].size = 209 /\ Len(Entries[1].contentPreview) = 203
    /\ Entries[2].originalName = "archive.tar.GZ" /\ Entries[2].type = ".gz"
    /\ Entries[2].size = 208 /\ Entries[2].contentPreview = Text200

\* ------------------------------------------- the scripts' sample previews
\* How many characters of a sample a preview shows, and of how many samples.
SampleLen == 150
FirstSamples == 5

\* A printed line: its kind and, for a sample line, the number, the sample
\* and what is shown of it.
Line(kind) == [line |-> kind, i |-> 0, text |-> "", shown |-> ""]

\* The lines "Sample {i}: {preview}" for the first five samples.  Where
\* always is FALSE the preview is
\* text[:150] + "..." if len(text) > 150 else text, where it is TRUE it is
\* f"{text[:150]}...".
SampleLines(samples, always) ==
    [k \in 1..(IF Len(samples) < FirstSamples THEN Len(samples) ELSE FirstSamples) |->
        [line |-> "sample", i |-> k, text |-> samples[k],
         shown |-> IF always \/ Len(samples[k]) > SampleLen
                   THEN Slice(samples[k], 1, SampleLen) \o "..."
                   ELSE samples[k]]]

\* if 'texts' in dataset_dict and dataset_dict['texts']: the header, the
\* sample lines and the footer.  dataset_dict has the one key d.key.
PreviewBlock(d) ==
    IF d.key = "texts" /\ d.texts # <<>>
    THEN <<Line("header")>> \o SampleLines(d.texts, FALSE) \o <<Line("footer")>>
    ELSE <<>>

\* if args.hyperparameters: json.loads, the hyperparameters line and the
\* preview block, or the line of the except clause.
HyperparameterLines(d, hyperparameters) ==
    IF hyperparameters = "" THEN <<>>
    ELSE IF loads(hyperparameters).ok
    THEN <<Line("hyperparameters")>> \o PreviewBlock(d)
    ELSE <<Line("could not parse")>>

\* The read_data of the script create_gpt2_script writes when there is no
\* gpt2_tuning.py.  A JSON list is taken as it is; the lists of the
\* contents below hold strings.
FallbackReadData(content, type) ==
    IF type = ".json"
    THEN LET r == loads(content)
         IN  IF ~r.ok THEN <<content>>
             ELSE IF IsList(r.v) THEN [k \in 1..Len(r.v.kids) |-> r.v.kids[k].s]
             ELSE <<str(r.v)>>
    ELSE StripAll(SelectSeq(split(content), LAMBDA l : strip(l) # ""))

\* finetune.py, load_training_data on a .txt file: the log lines of the
\* non-empty lines among the first five.
FinetuneLines(content) ==
    LET ls == split(content)
        at == SelectSeq([k \in 1..Len(ls) |-> k],
                        LAMBDA k : k <= FirstSamples /\ strip(ls[k]) # "")
    IN  [j \in 1..Len(at) |->
            [line |-> "sample", i |-> at[j], text |-> strip(ls[at[j]]),
             shown |-> Slice(strip(ls[at[j]]), 1, SampleLen) \o "..."]]

\* Lines of 150 and 151 characters.
Line150 == Slice(Text200, 1, 20) \o Slice(Text200, 26, 45) \o Slice(Text200, 51, 70)
           \o Slice(Text200, 76, 95) \o Slice(Text200, 101, 120)
           \o Slice(Text200, 126, 145) \o Slice(Text200, 151, 170) \o "0123456789"
Line151 == Line150 \o "!"

\* The contents the scripts other than gpt2_tuning.py are run on, and the
\* values of --hyperparameters.
ScriptLines == {"short", " padded ", Line150, Line151}
ScriptContents ==
    {"", "a short line, of 27 letters", Line150 \o "\n\n short one \n" \o Line151,
     "[\"short\", \" a longer one \"]", "{\"text\": \"short\"}",
     "l1 is a line\nl2 is a line\nl3 is a line\nl4 is a line\nl5 is a line\nl6 is a line"}
    \cup {l \o "\n" \o m : l \in ScriptLines, m \in ScriptLines}
HyperparameterArgs == {"", "{\"epochs\": 3}", "{epochs: 3}"}

\* python gpt2_tuning.py: after read_data has returned, the lines of
\* __main__.  read_data returns {"text": texts}.
GptMain ==
    /\ script = "gpt2_tuning" /\ pc = "done" /\ out = <<>>
    /\ \E hyperparameters \in HyperparameterArgs :
         out' = HyperparameterLines([key |-> "text", texts |-> texts], hyperparameters)
                \o <<Line("exit")>>
    /\ UNCHANGED <<script, vars, jobVars, apiVars>>

\* The script create_gpt2_script writes: its read_data returns
\* {"texts": texts}; main prints the first block, then the hyperparameters
\* and the second block.
FallbackMain ==
    /\ script = "fallback" /\ out = <<>>
    /\ \E content \in ScriptContents, type \in {".txt", ".json"},
          hyperparameters \in HyperparameterArgs :
       \E d \in {[key |-> "texts", texts |-> FallbackReadData(content, type)]} :
         out' = PreviewBlock(d) \o HyperparameterLines(d, hyperparameters)
                \o <<Line("exit")>>
    /\ UNCHANGED <<script, vars, jobVars, apiVars>>

\* python test_latest_upload.py on the latest content file.
TestLatestUpload ==
    /\ script = "test_latest_upload" /\ out = <<>>
    /\ \E content \in ScriptContents :
       \E samples \in {test_latest_upload_texts(content)} :
         out' = (IF samples = <<>> THEN <<>>
                 ELSE <<Line("header")>> \o SampleLines(samples, TRUE)
                      \o <<Line("footer")>>)
                \o <<Line("exit")>>
    /\ UNCHANGED <<script, vars, jobVars, apiVars>>

\* finetune.py: load_training_data on an input directory with one .txt
\* file.
LoadTrainingData ==
    /\ script = "finetune" /\ out = <<>>
    /\ \E content \in ScriptContents :
         out' = FinetuneLines(content) \o <<Line("exit")>>
    /\ UNCHANGED <<script, vars, jobVars, apiVars>>

\* python gpt2_tuning.py <file> --hyperparameters <value>: read_data's
\* steps, then the lines of __main__.
InitMain ==
    /\ script = "gpt2_tuning"
    /\ file_content \in Contents /\ file_type \in FileTypes /\ pc = "start"
    /\ data = JNull /\ lines = <<>> /\ idx = 0
    /\ texts = <<>> /\ src = <<>> /\ fed = NoFeed
    /\ out = <<>>
    /\ JobsIdle
    /\ ApiIdle

NextMain == Next \/ GptMain

SpecMain == InitMain /\ [][NextMain]_allVars

\* The other scripts that print previews of 150 characters.
InitScripts ==
    /\ script \in {"fallback", "test_latest_upload", "finetune"}
    /\ ReadDataIdle
    /\ out = <<>>
    /\ JobsIdle
    /\ ApiIdle

NextScripts == FallbackMain \/ TestLatestUpload \/ LoadTrainingData

SpecScripts == InitScripts /\ [][NextScripts]_allVars

\* --------------------------------------------- the claims on the previews
\* C18: in every dataset sample preview a script prints, a sample longer
\* than 150 characters is shown as its first 150 characters followed by
\* "...", and a sample of at most 150 characters is shown unchanged, with
\* no suffix.
C18_PreviewSuffixOnlyWhenCut ==
    \A k \in 1..Len(out) :
        out[k].line = "sample" =>
            out[k].shown = IF Len(out[k].text) > SampleLen
                           THEN Slice(out[k].text, 1, SampleLen) \o "..."
                           ELSE out[k].text

\* The sample lines gpt2_tuning.py has printed, in order.
PrintedSamples == SelectSeq(out, LAMBDA l : l.line = "sample")

ACCESS_TOKEN_EXPIRE_MINUTES == 30
DefaultExpireMinutes == 15
SECRET_KEY == "SECRET_KEY"

\* timedelta(minutes=m) in seconds; None stands for no expires_delta.
timedelta(minutes) == minutes * 60
NoDelta == 0 - 1

\* jwt.encode(to_encode, key): the payload and the key that signed it.
Jwt(payload, key) == [jws |-> TRUE, payload |-> payload, key |-> key]

create_access_token_Default(to_encode, expires_delta, utcnow) ==
    Jwt([sub |-> to_encode.sub, exp |-> utcnow + timedelta(DefaultExpireMinutes)], SECRET_KEY)

create_access_token(to_encode, expires_delta, utcnow) ==
    LET expire == IF expires_delta # NoDelta THEN utcnow + expires_delta
                  ELSE utcnow + timedelta(DefaultExpireMinutes)
    IN  Jwt([sub |-> to_encode.sub, exp |-> expire], SECRET_KEY)

\* decode_token: the payload, or None on a JWTError (not a token, a
\* signature of another key, or exp < now).
NoPayload == [sub |-> "", exp |-> 0 - 1]
decode_token(token, utcnow) ==
    IF ~token.jws \/ token.key # SECRET_KEY \/ token.payload.exp < utcnow
    THEN NoPayload
    ELSE token.payload

\* dict.pop(key, None) on a copy.
Pop(d, key) == [f \in (DOMAIN d) \ {key} |-> d[f]]

\* The user table: one item for an email.  NoUser stands for None.
NoUser == [provider |-> "none"]

\* table.get_item(Key={'email': email}).get('Item'); None also where
\* get_item raises ClientError (get_ok is FALSE).
get_user_by_email(email, get_ok) ==
    IF get_ok /\ \E u \in table : u.email = email
    THEN CHOOSE u \in table : u.email = email
    ELSE NoUser

\* table.put_item(Item=item): the item takes the place of the one stored
\* for its email.
put_item(item) == {u \in table : u.email # item.email} \cup {item}

\* table.update_item(Key={'email': email}, 'SET last_login = :last_login')
update_item(email) ==
    {IF u.email = email THEN [u EXCEPT !.last_login = now] ELSE u : u \in table}

\* bcrypt.hashpw with a salt, and bcrypt.checkpw, which raises ValueError
\* on a hash that is none (the empty string).
hash_password(password) == "bcrypt:" \o password
verify_password(password, hashed_password) == hashed_password = hash_password(password)

\* What a call of the manager leaves: the exception it raised ("" for
\* none), the table and the dict it returned.
Outcome(raised, t, user) == [raised |-> raised, table |-> t, user |-> user]

\* create_user(user_data); token is secrets.token_urlsafe(16).
create_user(email, password, token, get_ok, put_ok) ==
    IF get_user_by_email(email, get_ok) # NoUser
    THEN Outcome("User already exists", table, NoUser)
    ELSE LET user_item == [user_id |-> "user_" \o token, email |-> email,
                           password_hash |-> hash_password(password),
                           created_at |-> now, provider |-> "email", last_login |-> now]
         IN  IF ~put_ok THEN Outcome("Failed to create user", table, NoUser)
             ELSE Outcome("", put_item(user_item), Pop(user_item, "password_hash"))

authenticate_user_WithHash(email, password, get_ok, update_ok) ==
    LET user == get_user_by_email(email, get_ok)
        hashed == IF "password_hash" \in DOMAIN user THEN user.password_hash ELSE ""
    IN  IF user = NoUser THEN Outcome("", table, NoUser)
        ELSE IF hashed = "" THEN Outcome("Invalid salt", table, NoUser)
        ELSE IF ~verify_password(password, hashed) THEN Outcome("", table, NoUser)
        ELSE IF ~update_ok THEN Outcome("", table, NoUser)
        ELSE Outcome("", update_item(email), user)

\* authenticate_user(email, password): only ClientError is caught.
authenticate_user(email, password, get_ok, update_ok) ==
    LET user == get_user_by_email(email, get_ok)
        hashed == IF "password_hash" \in DOMAIN user THEN user.password_hash ELSE ""
    IN  IF user = NoUser THEN Outcome("", table, NoUser)
        ELSE IF hashed = "" THEN Outcome("Invalid salt", table, NoUser)
        ELSE IF ~verify_password(password, hashed) THEN Outcome("", table, NoUser)
        ELSE IF ~update_ok THEN Outcome("", table, NoUser)
        ELSE Outcome("", update_item(email), Pop(user, "password_hash"))

\* The id of the Google account of an email.
GoogleSub(email) ==
    IF email = "ann@x.io" THEN "104857600123456789012" ELSE "115792089237316195423"

\* create_google_user(google_user); write_ok is FALSE where update_item or
\* put_item raises ClientError.
create_google_user(email, get_ok, write_ok) ==
    LET existing_user == get_user_by_email(email, get_ok)
        user_item == [user_id |-> "google_" \o GoogleSub(email), email |-> email,
                      created_at |-> now, provider |-> "google", last_login |-> now]
    IN  IF ~write_ok THEN Outcome("Failed to create Google user", table, NoUser)
        ELSE IF existing_user # NoUser
        THEN Outcome("", update_item(email), Pop(existing_user, "password_hash"))
        ELSE Outcome("", put_item(user_item), user_item)

Emails == {"ann@x.io", "bob@x.io"}
Passwords == {"pw", "guess"}
UrlSafeTokens == {"Ab3d-fGhIjKlMnOpQrStUv"}
Times == {0, 900, 1800, 1801}
MaxTokens == 2

\* Tokens a client may present: the issued ones, one signed with another
\* key, and a string that is no token.
Presented ==
    {t.token : t \in issued}
    \cup {Jwt([sub |-> "ann@x.io", exp |-> 1801], "another key"),
          [jws |-> FALSE, payload |-> NoPayload, key |-> ""]}

\* The item the table holds for an email, whatever a lookup answers.
Stored(email) == get_user_by_email(email, TRUE)

\* What is recorded of a request: the answer, the token of a Token body,
\* the dict the manager returned and the fields of the body.
Request(op, email, password) ==
    [op |-> op, email |-> email, password |-> password, existing |-> Stored(email),
     at |-> now]
Granted(q, user, token) ==
    q @@ [code |-> 200, detail |-> "", granted |-> TRUE, user |-> user.email,
          token |-> token, payload |-> token.payload, returned |-> user,
          body |-> {"access_token", "token_type"}]
Refused(q, code, detail) ==
    q @@ [code |-> code, detail |-> detail, granted |-> FALSE, user |-> "",
          token |-> Jwt(NoPayload, ""), payload |-> NoPayload, returned |-> NoUser,
          body |-> {"detail"}]

\* The token of register, login and the callback:
\* create_access_token(data={"sub": user["email"]}, expires_delta=...).
Issue(q, user) ==
    \E token \in {create_access_token([sub |-> user.email],
                                      timedelta(ACCESS_TOKEN_EXPIRE_MINUTES), now)} :
        /\ issued' = issued \cup {[token |-> token, user |-> user.email, at |-> now]}
        /\ last' = Granted(q, user, token)

\* POST /api/auth/register: a ValueError of create_user becomes 400.
Register ==
    /\ Cardinality(issued) < MaxTokens
    /\ \E email \in Emails, password \in Passwords, token \in UrlSafeTokens,
          get_ok \in BOOLEAN, put_ok \in BOOLEAN :
       \E r \in {create_user(email, password, token, get_ok, put_ok)} :
         /\ table' = r.table
         /\ IF r.raised # ""
            THEN /\ last' = Refused(Request("register", email, password), 400, r.raised)
                 /\ UNCHANGED issued
            ELSE Issue(Request("register", email, password), r.user)
    /\ UNCHANGED <<vars, mainVars, aws_configured, demo_jobs, sm_jobs, now, created, bucket>>

\* POST /api/auth/login: an exception of authenticate_user is not caught.
Login ==
    /\ Cardinality(issued) < MaxTokens
    /\ \E email \in Emails, password \in Passwords, get_ok \in BOOLEAN,
          update_ok \in BOOLEAN :
       \E r \in {authenticate_user(email, password, get_ok, update_ok)} :
         /\ table' = r.table
         /\ IF r.raised # ""
            THEN /\ last' = Refused(Request("login", email, password), 500,
                                    "Internal Server Error")
                 /\ UNCHANGED issued
            ELSE IF r.user = NoUser
            THEN /\ last' = Refused(Request("login", email, password), 401,
                                    "Incorrect email or password")
                 /\ UNCHANGED issued
            ELSE Issue(Request("login", email, password), r.user)
    /\ UNCHANGED <<vars, mainVars, aws_configured, demo_jobs, sm_jobs, now, created, bucket>>

\* GET /api/auth/google/callback: exchanged is FALSE where the exchange of
\* the code or the user info request fails; every exception ends in the
\* error page.
GoogleCallback ==
    /\ Cardinality(issued) < MaxTokens
    /\ \E email \in Emails, exchanged \in BOOLEAN, get_ok \in BOOLEAN,
          write_ok \in BOOLEAN :
       \E r \in {IF exchanged THEN create_google_user(email, get_ok, write_ok)
                 ELSE Outcome("KeyError", table, NoUser)} :
         /\ table' = r.table
         /\ IF r.raised # ""
            THEN /\ last' = Refused(Request("google_callback", email, ""), 200, "Login Failed")
                 /\ UNCHANGED issued
            ELSE Issue(Request("google_callback", email, ""), r.user)
    /\ UNCHANGED <<vars, mainVars, aws_configured, demo_jobs, sm_jobs, now, created, bucket>>

\* get_current_user(credentials): the status and the dict it returns.
get_current_user(token, get_ok) ==
    LET payload == decode_token(token, now)
        user == IF payload = NoPayload THEN NoUser
                ELSE get_user_by_email(payload.sub, get_ok)
    IN  [code |-> IF payload = NoPayload \/ payload.sub = "" THEN 401
                  ELSE IF user = NoUser THEN 401 ELSE 200,
         detail |-> IF payload = NoPayload \/ payload.sub = ""
                    THEN "Invalid authentication credentials"
                    ELSE IF user = NoUser THEN "User not found" ELSE "",
         payload |-> payload, user |-> user]

\* get_current_user, the dependency of every protected endpoint.
GetCurrentUser ==
    /\ \E token \in Presented, get_ok \in BOOLEAN :
       \E c \in {get_current_user(token, get_ok)} :
         last' = [op |-> "get_current_user", code |-> c.code, detail |-> c.detail,
                  granted |-> FALSE,
                  user |-> IF c.user = NoUser THEN "" ELSE c.user.email,
                  token |-> token, payload |-> c.payload, at |-> now]
    /\ UNCHANGED <<vars, mainVars, aws_configured, demo_jobs, sm_jobs, now, created, bucket,
                   table, issued>>

\* The fields of the response model User.
UserFields == {"user_id", "email", "full_name", "created_at", "provider"}

\* GET /api/auth/me: User(**current_user), which keeps the fields of User.
GetCurrentUserInfo ==
    /\ \E token \in Presented, get_ok \in BOOLEAN :
       \E c \in {get_current_user(token, get_ok)} :
         last' = [op |-> "me", code |-> c.code, detail |-> c.detail,
                  granted |-> FALSE,
                  user |-> IF c.user = NoUser THEN "" ELSE c.user.email,
                  token |-> token, payload |-> c.payload, at |-> now,
                  current_user |-> c.user,
                  body |-> IF c.code = 200 THEN UserFields ELSE {"detail"}]
    /\ UNCHANGED <<vars, mainVars, aws_configured, demo_jobs, sm_jobs, now, created, bucket,
                   table, issued>>

\* Time passes.
TimePasses ==
    /\ \E t \in Times : /\ t > now
                        /\ \A u \in Times : u > now => t <= u
                        /\ now' = t
    /\ UNCHANGED <<vars, mainVars, aws_configured, demo_jobs, sm_jobs, created, last, bucket,
                   table, issued>>

InitAuth == ReadDataIdle /\ JobsIdle /\ ApiIdle /\ MainIdle

NextAuth ==
    Register \/ Login \/ GoogleCallback \/ GetCurrentUser \/ GetCurrentUserInfo \/ TimePasses

SpecAuth == InitAuth /\ [][NextAuth]_allVars

\* -------------------------------------------------- the claim on tokens
\* C19: every bearer token issued by register, login or the third-party
\* sign-in callback carries as subject the email of the user record that
\* was just created or authenticated and an expiry 30 minutes after
\* issuance; decoding that token before its expiry yields that same email
\* as subject; a token that does not decode is rejected by
\* get_current_user with 401.
C19_TokenSubjectAndExpiry ==
    /\ \A t \in issued :
         /\ t.token.payload.sub = t.user
         /\ \E u \in table : u.email = t.user
         /\ t.token.payload.exp = t.at + 30 * 60
         /\ now < t.token.payload.exp => decode_token(t.token, now).sub = t.user
    /\ (last.op \in {"register", "login", "google_callback"} /\ last.granted) =>
         /\ last.code = 200
         /\ [token |-> last.token, user |-> last.user, at |-> last.at] \in issued
    /\ last.op = "get_current_user" =>
         /\ last.payload = NoPayload => last.code = 401
         /\ \A t \in issued :
              (t.token = last.token /\ now < t.token.payload.exp) =>
                  last.payload.sub = t.user

\* A token obtained by login was accepted before its expiry, and a token
\* was refused after it.
C19_Witness ==
    /\ last.op = "get_current_user" /\ last.code = 200
    /\ \E t \in issued : t.token = last.token /\ now > t.at /\ now < t.token.payload.exp
C19_WitnessExpired ==
    /\ last.op = "get_current_user" /\ last.code = 401
    /\ \E t \in issued : t.token = last.token /\ now > t.token.payload.exp
C19_WitnessForged ==
    /\ last.op = "get_current_user" /\ last.code = 401
    /\ last.token.jws /\ last.token.key # SECRET_KEY


\* ------------------------------------------- generate_job_name by itself
\* The user ids, base models and seconds generate_job_name is called with.
NameUsers == Users \cup {"", "a@b.c"}
NameModels ==
    BaseModels \cup {"", "TheBloke/Mixtral-8x7B-Instruct-v0.1-LimaRP-ZLoss-AWQ",
                     "TheBloke/Mixtral-8x7B-Instruct-v0.1-LimaRP-ZLoss-GPTQ"}
NameSeconds == {0, 1, 9, 10, 30, 58, 59}

\* sagemaker_manager.generate_job_name(user_id, base_model) at second t.
GenerateJobName ==
    /\ \E user_id \in NameUsers, base_model \in NameModels, t \in NameSeconds :
         last' = [op |-> "generate_job_name", user_id |-> user_id,
                  base_model |-> base_model, t |-> t,
                  job_name |-> generate_job_name(user_id, base_model, t)]
    /\ UNCHANGED <<vars, apiVars, mainVars, aws_configured, demo_jobs, sm_jobs, now, created>>

InitNames == ReadDataIdle /\ JobsIdle /\ ApiIdle /\ MainIdle

NextNames == GenerateJobName

SpecNames == InitNames /\ [][NextNames]_allVars

\* C21: generate_job_name returns, for every user id and base model, a name
\* of at most 63 characters made only of alphanumeric characters and
\* hyphens that neither starts nor ends with a hyphen, and that passes the
\* job-name validation made before the real create call.
C21_JobNameWellFormed ==
    last.op = "generate_job_name" =>
        /\ Len(last.job_name) <= 63
        /\ \A i \in 1..Len(last.job_name) :
              CharAt(last.job_name, i) \in AlnumChars \cup {"-"}
        /\ CharAt(last.job_name, 1) # "-"
        /\ CharAt(last.job_name, Len(last.job_name)) # "-"
        /\ ValidJobName(last.job_name)


\* C22: job names are unique: two distinct create requests never obtain
\* the same name, so no create call replaces an entry the demo-job registry
\* already holds: every entry of demo_jobs stays as it is.
C22_DemoJobNeverOverwritten ==
    [][\A k \in 1..Len(demo_jobs) :
           k <= Len(demo_jobs') /\ demo_jobs'[k] = demo_jobs[k]]_allVars


\* -------------------------------------------- the claims on the user store
\* C23: a register request never modifies or replaces a user record that
\* is already stored for that email: whatever the existence lookup
\* answers, registering an existing email fails with 400 'User already
\* exists' and leaves the stored user_id, password hash and provider as
\* they were.
C23_RegisterKeepsExistingRecord ==
    (last.op = "register" /\ last.existing # NoUser) =>
        /\ last.code = 400
        /\ last.detail = "User already exists"
        /\ \E u \in table :
              /\ u.email = last.email
              /\ u.user_id = last.existing.user_id
              /\ u.provider = last.existing.provider
              /\ ("password_hash" \in DOMAIN u) = ("password_hash" \in DOMAIN last.existing)
              /\ "password_hash" \in DOMAIN u =>
                     u.password_hash = last.existing.password_hash

\* C24: login issues a bearer token if and only if the email has a stored
\* record whose password hash matches the supplied password; in every
\* other case (unknown email, wrong password, an account of a third-party
\* sign-in, which has no password hash) it answers 401 'Incorrect email or
\* password' and issues no token.
C24_LoginTokenIffPasswordMatches ==
    last.op = "login" =>
        /\ last.granted <=>
              /\ last.existing # NoUser
              /\ "password_hash" \in DOMAIN last.existing
              /\ last.existing.password_hash = hash_password(last.password)
        /\ ~last.granted =>
              /\ last.code = 401
              /\ last.detail = "Incorrect email or password"

\* C25: no user record returned by create_user, authenticate_user or
\* create_google_user, and no response body of register, login or
\* /api/auth/me, contains the password_hash field.
C25_NoPasswordHashReturned ==
    /\ last.op \in {"register", "login", "google_callback"} =>
         /\ "password_hash" \notin DOMAIN last.returned
         /\ "password_hash" \notin last.body
    /\ last.op = "me" => "password_hash" \notin last.body

\* A login with the right password was answered with the record of a user
\* who has a password hash, and /api/auth/me answered for such a user.
C25_Witness ==
    /\ last.op = "login" /\ last.granted
    /\ "password_hash" \in DOMAIN last.existing
    /\ last.returned.email = last.email
C25_WitnessMe ==
    /\ last.op = "me" /\ last.code = 200
    /\ "password_hash" \in DOMAIN last.current_user
C25_WitnessGoogleExisting ==
    /\ last.op = "google_callback" /\ last.granted
    /\ "password_hash" \in DOMAIN last.existing


\* --------------------------------------- GET /api/model-download/{job_name}
\* get_model_download_url(model_s3_uri) of the manager: the presigned URL,
\* or an exception where the URI has no key or the URL cannot be signed.
PresignedUrl(model_s3_uri, presign_ok) ==
    IF presign_ok /\ In("/", Slice(model_s3_uri, 6, Len(model_s3_uri)))
    THEN [raised |-> FALSE, url |-> "https://" \o Slice(model_s3_uri, 6, Len(model_s3_uri))
                                     \o "?X-Amz-Expires=3600"]
    ELSE [raised |-> TRUE, url |-> ""]

\* The endpoint: the HTTPException raised inside the try block is an
\* Exception, so the except clause of the handler takes it as well.
get_model_download_url(job_name, describe_ok, presign_ok) ==
    LET r == get_training_job_status(job_name, describe_ok)
        job_status == r.job
    IN  IF r.raised
        THEN Answer(500, ErrorBody("Failed to generate download URL: " \o r.error))
        ELSE IF job_status.status # "Completed"
        THEN Answer(500, ErrorBody("Failed to generate download URL: "
                                   \o "400: Training job not completed"))
        ELSE IF job_status.model_artifacts_s3_uri = "None"
        THEN Answer(500, ErrorBody("Failed to generate download URL: "
                                   \o "404: Model artifacts not found"))
        ELSE LET u == PresignedUrl(job_status.model_artifacts_s3_uri, presign_ok)
             IN  IF u.raised
                 THEN Answer(500, ErrorBody("Failed to generate download URL: "
                                            \o "Failed to generate download URL"))
                 ELSE Answer(200, [download_url |-> u.url,
                                   model_s3_uri |-> job_status.model_artifacts_s3_uri,
                                   job_name |-> job_name, expires_in |-> 3600])

\* The service ends a training job: completed with or without model
\* artifacts, or failed.
ServiceEnds ==
    /\ \E i \in 1..Len(sm_jobs), how \in {"artifacts", "no artifacts", "Failed"} :
         /\ sm_jobs[i].TrainingJobStatus = "InProgress"
         /\ sm_jobs' =
              [sm_jobs EXCEPT ![i] =
                 IF how = "artifacts"
                 THEN [TrainingJobStatus |-> "Completed",
                       ModelArtifacts |-> "s3://" \o s3_bucket \o "/models/"
                                          \o sm_jobs[i].TrainingJobName
                                          \o "/output/model.tar.gz"] @@ sm_jobs[i]
                 ELSE [TrainingJobStatus |-> IF how = "Failed" THEN "Failed"
                                             ELSE "Completed"] @@ sm_jobs[i]]
    /\ UNCHANGED <<aws_configured, demo_jobs, now, created, last>>
    /\ UNCHANGED <<vars, apiVars, mainVars>>

GetModelDownloadUrl ==
    /\ \E n \in LookupNames, describe_ok \in BOOLEAN, presign_ok \in BOOLEAN :
         last' = [op |-> "download", job_name |-> n,
                  r |-> get_training_job_status(n, describe_ok),
                  presign_ok |-> presign_ok,
                  answer |-> get_model_download_url(n, describe_ok, presign_ok)]
    /\ UNCHANGED <<aws_configured, demo_jobs, sm_jobs, now, created>>
    /\ UNCHANGED <<vars, apiVars, mainVars>>

NextDownload == CreateTrainingJob \/ ServiceEnds \/ GetModelDownloadUrl

SpecDownload == InitJobs /\ [][NextDownload]_allVars

\* C26: the model-download endpoint answers 400 'Training job not
\* completed' when the job's status is not Completed and 404 'Model
\* artifacts not found' when a Completed job has no artifacts URI; it
\* answers 500 only when the status lookup or the URL generation fails.
C26_DownloadErrorCodes ==
    last.op = "download" =>
        /\ (~last.r.raised /\ last.r.job.status # "Completed") =>
              /\ last.answer.code = 400
              /\ last.answer.body.detail = "Training job not completed"
        /\ (/\ ~last.r.raised /\ last.r.job.status = "Completed"
            /\ last.r.job.model_artifacts_s3_uri = "None") =>
              /\ last.answer.code = 404
              /\ last.answer.body.detail = "Model artifacts not found"
        /\ last.answer.code = 500 =>
              \/ last.r.raised
              \/ /\ last.r.job.status = "Completed"
                 /\ last.r.job.model_artifacts_s3_uri # "None"
                 /\ ~last.presign_ok


\* ------------------------------------------------ finetune.py: main
\* out is the log of the run: the lines logged, the files written and the
\* exit.  i of a line is the number it shows.  The losses are floats no
\* line below depends on; of the batch loop the run keeps the number of
\* batches, by which the total loss is divided.
Logged(kind, n) == [line |-> kind, i |-> n, text |-> "", shown |-> ""]

\* The largest number of batches of an epoch: min(num_batches, 100).
MaxBatches == 100

\* The numbers of samples load_training_data returns, and the values of
\* batch_size and epochs.
SampleCounts == 0..5
BatchSizes == {1, 2, 4}
EpochCounts == {1, 2, 3}

\* The number the first line of a kind shows.
NumberOf(kind) == out[CHOOSE k \in 1..Len(out) : out[k].line = kind].i
EpochsCompleted == Cardinality({k \in 1..Len(out) : out[k].line = "epoch completed"})
Exited == out # <<>> /\ out[Len(out)].line = "exit"

\* The except clause of main: the failure indicator and exit code 1.
Failure == <<Logged("training_failure.txt", 0), Logged("exit", 1)>>

\* main up to the call of train_model: the trainer, load_training_data,
\* sys.exit(1) where there is no sample, and the first lines of train_model.
TrainStart ==
    /\ script = "finetune_main" /\ out = <<>>
    /\ \E n \in SampleCounts, batch_size \in BatchSizes, epochs \in EpochCounts :
         out' = IF n = 0
                THEN <<Logged("samples", 0), Logged("exit", 1)>>
                ELSE <<Logged("samples", n), Logged("batch_size", batch_size),
                       Logged("epochs", epochs)>>
    /\ UNCHANGED <<script, vars, jobVars, apiVars>>

\* One pass of for epoch in range(epochs): the batches, then
\* avg_loss = total_loss / min(num_batches, 100), whose ZeroDivisionError
\* ends in the except clause of main.
TrainEpoch ==
    /\ script = "finetune_main" /\ out # <<>> /\ ~Exited
    /\ EpochsCompleted < NumberOf("epochs")
    /\ \E num_batches \in {NumberOf("samples") \div NumberOf("batch_size")} :
       \E batches \in {IF num_batches < MaxBatches THEN num_batches ELSE MaxBatches} :
         out' = IF batches = 0 THEN out \o Failure
                ELSE Append(out, Logged("epoch completed", EpochsCompleted + 1))
    /\ UNCHANGED <<script, vars, jobVars, apiVars>>

\* After the last epoch: the metrics file, save_model, the success
\* indicator and sys.exit(0), which is no Exception.
TrainFinish ==
    /\ script = "finetune_main" /\ out # <<>> /\ ~Exited
    /\ EpochsCompleted = NumberOf("epochs")
    /\ out' = out \o <<Logged("training_metrics.json", 0), Logged("model saved", 0),
                       Logged("training_success.txt", 0), Logged("exit", 0)>>
    /\ UNCHANGED <<script, vars, jobVars, apiVars>>

InitTrain ==
    /\ script = "finetune_main"
    /\ ReadDataIdle
    /\ out = <<>>
    /\ JobsIdle
    /\ ApiIdle

NextTrain == TrainStart \/ TrainEpoch \/ TrainFinish

SpecTrain == InitTrain /\ [][NextTrain]_allVars

\* C27: finetune.py main, run with any positive number of loaded samples
\* and positive batch_size and epochs, exits with code 0 after writing the
\* success indicator and never writes the failure indicator, also when
\* there are fewer samples than batch_size.
C27_TrainingExitsWithSuccess ==
    (script = "finetune_main" /\ out # <<>> /\ NumberOf("samples") > 0) =>
        /\ \A k \in 1..Len(out) : out[k].line # "training_failure.txt"
        /\ Exited =>
              /\ out[Len(out)].i = 0
              /\ \E k \in 1..Len(out) : out[k].line = "training_success.txt"

\* --------- src/server/main.py: start_training, the choice of the object
\* --------- src/server/sagemaker_training.py: prepare_training_data
\* The characters of keys in the order of their UTF-8 bytes, the order in
\* which list_objects_v2 returns keys.
KeyAlphabet == "-./0123456789ABCDEFGHIJKLMNOPQRSTUVWXYZ_abcdefghijklmnopqrstuvwxyz"

\* The rank of the character c in the order of the listing.
KeyRank(c) == CHOOSE n \in 1..Len(KeyAlphabet) : CharAt(KeyAlphabet, n) = c

RECURSIVE KeyBefore(_, _, _)
\* The key a stands before the key b in the listing, compared from position i.
KeyBefore(a, b, i) ==
    IF i > Len(a) THEN i <= Len(b)
    ELSE IF i > Len(b) THEN FALSE
    ELSE IF CharAt(a, i) = CharAt(b, i) THEN KeyBefore(a, b, i + 1)
    ELSE KeyRank(CharAt(a, i)) < KeyRank(CharAt(b, i))

RECURSIVE Listing(_)
\* The keys of a set in the order of the listing.
Listing(keys) ==
    IF keys = {} THEN <<>>
    ELSE LET first == CHOOSE k \in keys : \A o \in keys \ {k} : KeyBefore(k, o, 1)
         IN  <<first>> \o Listing(keys \ {first})

\* s3_client.list_objects_v2(Bucket=..., Prefix=prefix).get('Contents', []).
list_objects_v2(keys, prefix) ==
    Listing({k \in keys : Slice(k, 1, Len(prefix)) = prefix})

\* start_training's file_s3_key for filename: the first key of the listing
\* of the user's folder that holds filename and does not end with
\* content_<filename>, "None" when the loop finds none.
file_s3_key(keys, user_id, filename) ==
    LET contents == list_objects_v2(keys, "users/" \o user_id \o "/uploads/")
        found == {i \in 1..Len(contents) :
                     /\ In(filename, contents[i])
                     /\ ~endswith(contents[i], "content_" \o filename)}
    IN  IF found = {} THEN "None"
        ELSE contents[CHOOSE i \in found : \A j \in found : i <= j]

\* prepare_training_data's actual_key for file_name: the first key of the
\* listing of the user's folder that holds file_name, "None" when the loop
\* finds none.
actual_key(keys, user_id, file_name) ==
    LET contents == list_objects_v2(keys, "users/" \o user_id \o "/uploads/")
        found == {i \in 1..Len(contents) : In(file_name, contents[i])}
    IN  IF found = {} THEN "None"
        ELSE contents[CHOOSE i \in found : \A j \in found : i <= j]

\* The file lists of the uploads that precede a training request.
TrainingUploads ==
    {<<UploadFile("data.txt", Text25, TRUE)>>,
     <<UploadFile("my_data.txt", Text25, TRUE)>>,
     <<UploadFile("data.txt", Text25, TRUE), UploadFile("my_data.txt", Text25, TRUE)>>,
     <<UploadFile("data.txt.bak", Text25, TRUE), UploadFile("notes.txt", Text25, TRUE)>>,
     <<UploadFile("content_data.txt", Text25, TRUE), UploadFile("data.txt", Text25, TRUE)>>}

\* The file names training requests ask for.
RequestedFiles == {"data.txt", "my_data.txt", "notes.txt", "missing.json"}

\* The file ids uuid4 has drawn so far.
AllFileIds == {ids[i] : ids \in FileIds, i \in 1..2}

\* POST /api/upload by the user user_id, with file ids no stored object has.
UploadTrainingFiles ==
    /\ Cardinality(bucket) <= MaxObjects
    /\ \E user_id \in Users, files \in TrainingUploads, ids \in FileIds :
       \E fail_at \in 0..Len(files) :
       \E r \in {upload_files([user_id |-> user_id, files |-> files, ids |-> ids,
                               fail_at |-> fail_at, keys |-> bucket], 0, <<>>)} :
          /\ \A i \in 1..Len(files) : \A k \in bucket : ~In(ids[i], k)
          /\ bucket' = r.keys
          /\ last' = [op |-> "upload", user_id |-> user_id, files |-> files,
                      answer |-> r.answer]
    /\ UNCHANGED <<aws_configured, demo_jobs, sm_jobs, now, created, table, issued>>
    /\ UNCHANGED <<vars, mainVars>>

\* start_training looks for the object of one requested file.
StartTrainingSelects ==
    /\ \E user_id \in Users, filename \in RequestedFiles :
          last' = [op |-> "select", by |-> "start_training", user_id |-> user_id,
                   file_name |-> filename,
                   selected |-> file_s3_key(bucket, user_id, filename)]
    /\ UNCHANGED <<aws_configured, demo_jobs, sm_jobs, now, created, apiVars>>
    /\ UNCHANGED <<vars, mainVars>>

\* prepare_training_data looks for the object of one requested file.
PrepareTrainingDataSelects ==
    /\ \E user_id \in Users, file_name \in RequestedFiles :
          last' = [op |-> "select", by |-> "prepare_training_data", user_id |-> user_id,
                   file_name |-> file_name,
                   selected |-> actual_key(bucket, user_id, file_name)]
    /\ UNCHANGED <<aws_configured, demo_jobs, sm_jobs, now, created, apiVars>>
    /\ UNCHANGED <<vars, mainVars>>

NextSelect == UploadTrainingFiles \/ StartTrainingSelects \/ PrepareTrainingDataSelects

SpecSelect == InitApi /\ [][NextSelect]_allVars

\* C28: the object start_training and prepare_training_data select for a
\* requested file name F is an object the same user uploaded under the
\* original filename F, with the key users/<user>/uploads/<id>_F; an object
\* uploaded under another filename or by another user is never selected.
C28_SelectedObjectIsRequestedFile ==
    (last.op = "select" /\ last.selected # "None") =>
        \E id \in AllFileIds : last.selected = S3Key(last.user_id, id, last.file_name)

=============================================================================
